---- MODULE Spec2Model ----
(***************************************************************************)
(* notebook-processor: the checkpointed processing pipeline                *)
(* (pipeline.py, solver.py, parser.py, builder.py) and the convention-     *)
(* aware ingestion orchestrator (ingestion/ingestor.py, project_layout.py, *)
(* ingestion/manifest_generator.py).                                       *)
(***************************************************************************)
EXTENDS Integers, Sequences, FiniteSets, TLC

(***************************************************************************)
(* Bounds of the model.                                                    *)
(***************************************************************************)
MaxCells == 2
MaxRuns == 3
MaxIngests == 3
MaxBytes == 3
MaxClock == 3

(***************************************************************************)
(* Part 1.  The processing pipeline.                                       *)
(***************************************************************************)
VARIABLES
    notebook,    \* the cells of the .ipynb in input_dir (raw, as nbformat reads them)
    stateFile,   \* output_dir/state.json
    outputNb,    \* output_dir/<stem>_completed.ipynb
    htmlFile,    \* output_dir/<stem>_completed.html exists
    doneFs,      \* the done directory
    outDir,      \* output_dir exists
    pc,          \* per process: position of its run in ProcessingPipeline.run
    state,       \* per process: the local variable `state` of run
    content,     \* per process: the local variable `content` of run
    doneArg,     \* per process: the done_dir argument of the current/last run
    loaded,      \* per process: the state the run loaded (or created) when it started
    invoked,     \* per process: steps whose collaborator the run has called
    result,      \* per process: how the last run ended
    failed,      \* per process: the step whose work raised in the last run
    runs         \* number of runs started so far

pvars == <<notebook, stateFile, outputNb, htmlFile, doneFs, outDir, pc, state,
           content, doneArg, loaded, invoked, result, failed, runs>>

Procs == {"p1", "p2"}
\* the processes that run the pipeline when one process at a time operates
\* on the output directory
SeqProcs == {"p1"}

\* pipeline.py: the six step names, in the order run() performs them
StepOrder == <<"parse", "solve", "build", "execute", "export", "archive">>
Steps == {StepOrder[i] : i \in 1..Len(StepOrder)}

\* the values a caller passes as done_dir ("None" is Python's None)
DoneDirs == {"done", "None"}

(***************************************************************************)
(* models.py                                                               *)
(***************************************************************************)
CellTypes == {"code", "markdown"}
\* classes of cell source text: "todo" holds a code marker (# TODO ...),
\* "answer" holds a markdown placeholder (**Your answer here**), "empty" is
\* blank or `pass`, "plain" holds neither.
Sources == {"todo", "answer", "empty", "plain"}

\* a cell as nbformat reads it: code cells carry stored outputs
RawCell(t, s) == [cell_type |-> t, source |-> s,
                  outputs |-> IF t = "code" THEN "stale" ELSE "none"]
RawCells == {RawCell(t, s) : t \in CellTypes, s \in Sources}

SeqsUpTo(S, n) == UNION {[1..k -> S] : k \in 1..n}
Notebooks == SeqsUpTo(RawCells, MaxCells)

\* PipelineState(input_path, output_path, done_path, current_step,
\*               completed_steps = [], errors = [])
PipelineState(done, step, completed, errs) ==
    [exists |-> TRUE, done_path |-> done, current_step |-> step,
     completed_steps |-> completed, errors |-> errs]
NoState == [exists |-> FALSE, done_path |-> "None", current_step |-> "",
            completed_steps |-> <<>>, errors |-> <<>>]

NoContent == <<>>
NoNotebook == [exists |-> FALSE, cells |-> <<>>, executed |-> FALSE]
NoDone == [exists |-> FALSE, files |-> <<>>]

(***************************************************************************)
(* parser.py                                                               *)
(***************************************************************************)
_detect_code_todo(source) == source = "todo"
_detect_markdown_todo(source) == source = "answer"
_is_empty_code_cell(source) == source = "empty"

_classify_cell(cell_type, source) ==
    IF cell_type = "code" /\ (_detect_code_todo(source) \/ _is_empty_code_cell(source))
    THEN "todo_code"
    ELSE IF cell_type = "markdown" /\ _detect_markdown_todo(source)
    THEN "todo_markdown"
    ELSE "original"

\* NotebookParser.parse / _extract_cells: one NotebookCell per raw cell
parse(nb) ==
    [i \in 1..Len(nb) |->
        [index |-> i - 1,
         cell_type |-> nb[i].cell_type,
         source |-> nb[i].source,
         status |-> _classify_cell(nb[i].cell_type, nb[i].source),
         original_source |-> "None",
         outputs |-> nb[i].outputs]]

(***************************************************************************)
(* solver.py                                                               *)
(***************************************************************************)
\* StubSolver
solve_code_cell(cell) == "stub_solution"
solve_markdown_cell(cell) == "stub_answer"

\* NotebookSolver.solve
solve(cells) ==
    [i \in 1..Len(cells) |->
        IF cells[i].status = "todo_code"
        THEN [cells[i] EXCEPT !.source = solve_code_cell(cells[i]),
                              !.status = "completed",
                              !.original_source = cells[i].source]
        ELSE IF cells[i].status = "todo_markdown"
        THEN [cells[i] EXCEPT !.source = solve_markdown_cell(cells[i]),
                              !.status = "completed",
                              !.original_source = cells[i].source]
        ELSE cells[i]]

(***************************************************************************)
(* builder.py                                                              *)
(***************************************************************************)
\* NotebookBuilder._create_notebook: a fresh cell per content cell; outputs
\* cleared for completed code cells, stored outputs kept for other code cells
_create_notebook(cells) ==
    [i \in 1..Len(cells) |->
        [cell_type |-> cells[i].cell_type,
         source |-> cells[i].source,
         outputs |-> IF cells[i].status = "completed" /\ cells[i].cell_type = "code"
                     THEN "empty"
                     ELSE IF cells[i].cell_type = "code" /\ cells[i].outputs = "stale"
                     THEN "stale"
                     ELSE IF cells[i].cell_type = "code" THEN "empty" ELSE "none"]]

(***************************************************************************)
(* pipeline.py: ProcessingPipeline                                         *)
(***************************************************************************)
\* _load_or_create_state: state.json if it exists, else a fresh state whose
\* current_step is "parse"
_load_or_create_state(done) ==
    IF stateFile.exists THEN stateFile
    ELSE PipelineState(done, "parse", <<>>, <<>>)

\* a solve step that never records parse
SolveCompleted_without_parse(completed) == completed \o <<"solve">>

\* the completed_steps written after solve succeeds: lines 64-72 on a run
\* that parsed under `"parse" not in completed_steps`, lines 79-86 otherwise
SolveCompleted(completed) ==
    IF "parse" \notin {completed[i] : i \in 1..Len(completed)}
    THEN completed \o <<"parse", "solve">>
    ELSE completed \o <<"solve">>

\* the content run() hands to the builder (line 94)
BuildInput(p) == content[p]

\* str(exc) of the exception raised by a step's work
ExcText(step) == step

\* a resume check that looks at current_step instead of completed_steps
Done_by_current_step(st, step) == st.current_step = step

Done(st, step) == step \in {st.completed_steps[i] : i \in 1..Len(st.completed_steps)}

\* an except clause that records the error in memory but does not save it
Handler_without_save(p, st, step) ==
    LET st2 == [st EXCEPT !.errors = Append(st.errors, ExcText(step))] IN
    /\ state' = [state EXCEPT ![p] = st2]
    /\ stateFile' = stateFile
    /\ result' = [result EXCEPT ![p] = "raised"]
    /\ failed' = [failed EXCEPT ![p] = step]
    /\ pc' = [pc EXCEPT ![p] = "idle"]

\* the except clause, lines 145-149: record the error, save, re-raise
Handler(p, st, step) ==
    LET st2 == [st EXCEPT !.errors = Append(st.errors, ExcText(step))] IN
    /\ state' = [state EXCEPT ![p] = st2]
    /\ stateFile' = st2
    /\ result' = [result EXCEPT ![p] = "raised"]
    /\ failed' = [failed EXCEPT ![p] = step]
    /\ pc' = [pc EXCEPT ![p] = "idle"]

\* lines 48-53: argument conversion, output_dir creation, state load
RunStart(p, done_dir) ==
    /\ pc[p] = "idle"
    /\ runs < MaxRuns
    /\ runs' = runs + 1
    /\ doneArg' = [doneArg EXCEPT ![p] = done_dir]
    /\ invoked' = [invoked EXCEPT ![p] = {}]
    /\ content' = [content EXCEPT ![p] = NoContent]
    /\ IF done_dir = "None"
       THEN \* Path(None) raises TypeError at line 50, before the try block
            /\ result' = [result EXCEPT ![p] = "raised"]
            /\ failed' = [failed EXCEPT ![p] = "arguments"]
            /\ loaded' = [loaded EXCEPT ![p] = NoState]
            /\ UNCHANGED <<pc, state, outDir>>
       ELSE /\ outDir' = TRUE
            /\ state' = [state EXCEPT ![p] = _load_or_create_state(done_dir)]
            /\ loaded' = [loaded EXCEPT ![p] = _load_or_create_state(done_dir)]
            /\ result' = [result EXCEPT ![p] = "running"]
            /\ failed' = [failed EXCEPT ![p] = "none"]
            /\ pc' = [pc EXCEPT ![p] = "parse"]
    /\ UNCHANGED <<notebook, stateFile, outputNb, htmlFile, doneFs>>

\* lines 56-59 and 75: parse the source document (always re-done)
StepParse(p) ==
    /\ pc[p] = "parse"
    /\ invoked' = [invoked EXCEPT ![p] = @ \cup {"parse"}]
    /\ LET st == IF Done(state[p], "parse") THEN state[p]
                 ELSE [state[p] EXCEPT !.current_step = "parse"] IN
       \E ok \in BOOLEAN :
          IF ok
          THEN /\ content' = [content EXCEPT ![p] = parse(notebook)]
               /\ state' = [state EXCEPT ![p] = st]
               /\ stateFile' = IF Done(state[p], "parse") THEN stateFile ELSE st
               /\ pc' = [pc EXCEPT ![p] = "solve"]
               /\ UNCHANGED <<result, failed>>
          ELSE /\ Handler(p, st, "parse")
               /\ UNCHANGED content
    /\ UNCHANGED <<notebook, outputNb, htmlFile, doneFs, outDir, doneArg, loaded, runs>>

\* lines 61-73 and 76-87
StepSolve(p) ==
    /\ pc[p] = "solve"
    /\ IF Done(state[p], "solve")
       THEN /\ pc' = [pc EXCEPT ![p] = "build"]
            /\ UNCHANGED <<state, stateFile, content, invoked, result, failed>>
       ELSE LET st == [state[p] EXCEPT !.current_step = "solve"] IN
            /\ invoked' = [invoked EXCEPT ![p] = @ \cup {"solve"}]
            /\ \E ok \in BOOLEAN :
                 IF ok
                 THEN LET st2 == [st EXCEPT !.completed_steps = SolveCompleted(@)] IN
                      /\ content' = [content EXCEPT ![p] = solve(content[p])]
                      /\ state' = [state EXCEPT ![p] = st2]
                      /\ stateFile' = st2
                      /\ pc' = [pc EXCEPT ![p] = "build"]
                      /\ UNCHANGED <<result, failed>>
                 ELSE /\ Handler(p, st, "solve")
                      /\ UNCHANGED content
    /\ UNCHANGED <<notebook, outputNb, htmlFile, doneFs, outDir, doneArg, loaded, runs>>

\* a step that does not record its completion
Completed_without_append(st, step) == st

\* a step that overwrites completed_steps instead of appending to it
Completed_overwrites(st, step) == [st EXCEPT !.completed_steps = <<step>>]

\* the state after a step other than parse/solve succeeded
Completed(st, step) == [st EXCEPT !.completed_steps = Append(@, step)]

\* lines 92-103
StepBuild(p) ==
    /\ pc[p] = "build"
    /\ IF Done(state[p], "build")
       THEN /\ pc' = [pc EXCEPT ![p] = "execute"]
            /\ UNCHANGED <<state, stateFile, outputNb, invoked, result, failed>>
       ELSE LET st == [state[p] EXCEPT !.current_step = "build"] IN
            /\ invoked' = [invoked EXCEPT ![p] = @ \cup {"build"}]
            /\ \E ok \in BOOLEAN :
                 IF ok
                 THEN /\ outputNb' = [exists |-> TRUE,
                                      cells |-> _create_notebook(BuildInput(p)),
                                      executed |-> FALSE]
                      /\ state' = [state EXCEPT ![p] = Completed(st, "build")]
                      /\ stateFile' = Completed(st, "build")
                      /\ pc' = [pc EXCEPT ![p] = "execute"]
                      /\ UNCHANGED <<result, failed>>
                 ELSE /\ Handler(p, st, "build")
                      /\ UNCHANGED outputNb
    /\ UNCHANGED <<notebook, htmlFile, doneFs, outDir, content, doneArg, loaded, runs>>

\* lines 105-116; executor.py raises when the notebook is missing or fails
StepExecute(p) ==
    /\ pc[p] = "execute"
    /\ IF Done(state[p], "execute")
       THEN /\ pc' = [pc EXCEPT ![p] = "export"]
            /\ UNCHANGED <<state, stateFile, outputNb, invoked, result, failed>>
       ELSE LET st == [state[p] EXCEPT !.current_step = "execute"] IN
            /\ invoked' = [invoked EXCEPT ![p] = @ \cup {"execute"}]
            /\ \E ok \in BOOLEAN :
                 IF ok /\ outputNb.exists
                 THEN /\ outputNb' = [outputNb EXCEPT !.executed = TRUE]
                      /\ state' = [state EXCEPT ![p] = Completed(st, "execute")]
                      /\ stateFile' = Completed(st, "execute")
                      /\ pc' = [pc EXCEPT ![p] = "export"]
                      /\ UNCHANGED <<result, failed>>
                 ELSE /\ Handler(p, st, "execute")
                      /\ UNCHANGED outputNb
    /\ UNCHANGED <<notebook, htmlFile, doneFs, outDir, content, doneArg, loaded, runs>>

\* lines 118-130; exporter.py raises when the notebook is missing
StepExport(p) ==
    /\ pc[p] = "export"
    /\ IF Done(state[p], "export")
       THEN /\ pc' = [pc EXCEPT ![p] = "archive"]
            /\ UNCHANGED <<state, stateFile, htmlFile, invoked, result, failed>>
       ELSE LET st == [state[p] EXCEPT !.current_step = "export"] IN
            /\ invoked' = [invoked EXCEPT ![p] = @ \cup {"export"}]
            /\ \E ok \in BOOLEAN :
                 IF ok /\ outputNb.exists
                 THEN /\ htmlFile' = TRUE
                      /\ state' = [state EXCEPT ![p] = Completed(st, "export")]
                      /\ stateFile' = Completed(st, "export")
                      /\ pc' = [pc EXCEPT ![p] = "archive"]
                      /\ UNCHANGED <<result, failed>>
                 ELSE /\ Handler(p, st, "export")
                      /\ UNCHANGED htmlFile
    /\ UNCHANGED <<notebook, outputNb, doneFs, outDir, content, doneArg, loaded, runs>>

\* lines 132-143; archiver.py copies input_dir into done_dir
StepArchive(p) ==
    /\ pc[p] = "archive"
    /\ IF Done(state[p], "archive")
       THEN /\ pc' = [pc EXCEPT ![p] = "finish"]
            /\ UNCHANGED <<state, stateFile, doneFs, invoked, result, failed>>
       ELSE LET st == [state[p] EXCEPT !.current_step = "archive"] IN
            /\ invoked' = [invoked EXCEPT ![p] = @ \cup {"archive"}]
            /\ \E ok \in BOOLEAN :
                 IF ok
                 THEN /\ doneFs' = [exists |-> TRUE, files |-> notebook]
                      /\ state' = [state EXCEPT ![p] = Completed(st, "archive")]
                      /\ stateFile' = Completed(st, "archive")
                      /\ pc' = [pc EXCEPT ![p] = "finish"]
                      /\ UNCHANGED <<result, failed>>
                 ELSE /\ Handler(p, st, "archive")
                      /\ UNCHANGED doneFs
    /\ UNCHANGED <<notebook, outputNb, htmlFile, outDir, content, doneArg, loaded, runs>>

\* lines 151-153: final save and return
RunReturn(p) ==
    /\ pc[p] = "finish"
    /\ stateFile' = state[p]
    /\ result' = [result EXCEPT ![p] = "returned"]
    /\ pc' = [pc EXCEPT ![p] = "idle"]
    /\ UNCHANGED <<notebook, outputNb, htmlFile, doneFs, outDir, state, content,
                   doneArg, loaded, invoked, failed, runs>>

\* one process at a time operates on the output directory
Alone(p) == \A q \in Procs \ {p} : pc[q] = "idle"

PInit ==
    /\ notebook \in Notebooks
    /\ stateFile = NoState
    /\ outputNb = NoNotebook
    /\ htmlFile = FALSE
    /\ doneFs = NoDone
    /\ outDir = FALSE
    /\ pc = [p \in Procs |-> "idle"]
    /\ state = [p \in Procs |-> NoState]
    /\ content = [p \in Procs |-> NoContent]
    /\ doneArg = [p \in Procs |-> "done"]
    /\ loaded = [p \in Procs |-> NoState]
    /\ invoked = [p \in Procs |-> {}]
    /\ result = [p \in Procs |-> "none"]
    /\ failed = [p \in Procs |-> "none"]
    /\ runs = 0

PNext ==
    \/ \E p \in SeqProcs, d \in DoneDirs : Alone(p) /\ RunStart(p, d)
    \/ \E p \in Procs : StepParse(p)
    \/ \E p \in Procs : StepSolve(p)
    \/ \E p \in Procs : StepBuild(p)
    \/ \E p \in Procs : StepExecute(p)
    \/ \E p \in Procs : StepExport(p)
    \/ \E p \in Procs : StepArchive(p)
    \/ \E p \in Procs : RunReturn(p)

\* a run that is admitted only while no other run is under way
Admitted_when_alone(p) == Alone(p)

\* lines 48-53: run() takes no lock and looks at no other process before it
\* loads the state
Admitted(p) == TRUE

\* runs started by any process at any time on the same directories
ConcNext ==
    \/ \E p \in Procs, d \in DoneDirs : Admitted(p) /\ RunStart(p, d)
    \/ \E p \in Procs : StepParse(p)
    \/ \E p \in Procs : StepSolve(p)
    \/ \E p \in Procs : StepBuild(p)
    \/ \E p \in Procs : StepExecute(p)
    \/ \E p \in Procs : StepExport(p)
    \/ \E p \in Procs : StepArchive(p)
    \/ \E p \in Procs : RunReturn(p)

\* every step's work succeeds when retried often enough: it raises only in
\* a run that is not the last of the MaxRuns runs
Retried(p) == result'[p] = "raised" => runs < MaxRuns

\* run() invoked again and again on the same input, output and done
\* directories, one run at a time
RetryNext ==
    \/ \E p \in SeqProcs : Alone(p) /\ RunStart(p, "done")
    \/ \E p \in SeqProcs : StepParse(p) /\ Retried(p)
    \/ \E p \in SeqProcs : StepSolve(p) /\ Retried(p)
    \/ \E p \in SeqProcs : StepBuild(p) /\ Retried(p)
    \/ \E p \in SeqProcs : StepExecute(p) /\ Retried(p)
    \/ \E p \in SeqProcs : StepExport(p) /\ Retried(p)
    \/ \E p \in SeqProcs : StepArchive(p) /\ Retried(p)
    \/ \E p \in SeqProcs : RunReturn(p)

(***************************************************************************)
(* Part 2.  Convention-aware ingestion of a project folder.                *)
(***************************************************************************)
VARIABLES
    rootLoose,      \* entries of the project root outside input/, ingested/, output/
    inputDir,       \* files under root/input/
    ingestedDir,    \* files under root/ingested/ other than manifest.json
    manifestFile,   \* root/ingested/manifest.json: <<>> or <<its JSON document>>
    ingestedExists, \* root/ingested/ exists
    ipc,            \* position of the current ingest_project call
    force,          \* the force argument of the current/last call
    assets,         \* local variable `assets` / `repaired_assets` of ingest
    xformLog,       \* the TransformationLogger's entries
    analysis,       \* local variable `analysis` of ingest
    transLog,       \* the entries written to transformations.log
    returned,       \* the manifest the last call returned: <<>> or <<manifest>>
    generated,      \* the manifest the last full ingestion generated
    iresult,        \* how the last call ended
    phases,         \* number of ingestion phases the current/last call ran
    before,         \* the project folder as the current/last call found it
    calls,          \* number of ingest_project calls so far (also the clock)
    rawDir          \* the raw_dir argument of the current/last ingest

ivars == <<rootLoose, inputDir, ingestedDir, manifestFile, ingestedExists, ipc,
           force, assets, xformLog, analysis, transLog, returned, generated,
           iresult, phases, before, calls, rawDir>>

\* the files a project folder holds in this model, in sorted path order
PathOrder == <<"a.json", "data.csv", "hw.ipynb">>
Names == {PathOrder[i] : i \in 1..Len(PathOrder)}

\* what a file of each name may hold
FileContents(name) ==
    CASE name = "hw.ipynb" -> {"nb_plain", "nb_embedded_image"}
      [] name = "a.json" -> {"json_crlf"}
      [] OTHER -> {"csv_utf8", "csv_latin1", "csv_crlf", "csv_latin1_crlf"}

Absent == [exists |-> FALSE, data |-> "", by |-> 0]
File(data, by) == [exists |-> TRUE, data |-> data, by |-> by]
Dirs == {d \in [Names -> [exists : BOOLEAN,
                         data : {""} \cup UNION {FileContents(n) : n \in Names},
                         by : {0}]] :
            \A n \in Names : IF d[n].exists THEN d[n].data \in FileContents(n)
                             ELSE d[n] = Absent}
EmptyDir == [n \in Names |-> Absent]

\* the paths ingestion writes under ingested/ besides manifest.json
IngestedPaths == Names \cup {"data.csv.orig", "notebook.ipynb", "notebook.ipynb.orig",
                             "images/sample_output_cell0_0.png", "transformations.log"}
EmptyIngested == [q \in IngestedPaths |-> Absent]

(***************************************************************************)
(* Values of the pydantic models (models.py), tagged with their Python     *)
(* type, and the JSON values json.dumps writes for them.                   *)
(***************************************************************************)
PyStr(x) == [t |-> "str", v |-> x]
PyEnum(x) == [t |-> "enum", v |-> x]
PyInt(x) == [t |-> "int", v |-> x]
PyFloat(x) == [t |-> "float", v |-> x]
PyNone == [t |-> "none", v |-> "None"]

(***************************************************************************)
(* project_layout.py                                                       *)
(***************************************************************************)
has_loose_files == \E n \in Names : rootLoose[n].exists
input_already_populated == \E n \in Names : inputDir[n].exists

(***************************************************************************)
(* ingestion/inventory.py                                                  *)
(***************************************************************************)
Suffix(name) ==
    CASE name = "hw.ipynb" -> ".ipynb"
      [] name = "a.json" -> ".json"
      [] OTHER -> ".csv"
\* _EXT_MAP.get(ext, AssetType.SUPPLEMENT)
_EXT_MAP(ext) ==
    IF ext = ".ipynb" THEN "notebook"
    ELSE IF ext \in {".csv", ".tsv", ".parquet", ".json"} THEN "data"
    ELSE "supplement"
\* file_path.stat().st_size of each content
SizeOf(data) ==
    CASE data = "nb_plain" -> 900
      [] data = "nb_embedded_image" -> 5000
      [] data = "csv_utf8" -> 40
      [] data = "csv_latin1" -> 41
      [] data = "csv_latin1_crlf" -> 42
      [] data = "json_crlf" -> 20
      [] OTHER -> 44
\* _extract_csv_schema: row count and the first sample_head value
\* (int, str and float columns; a blank cell is None)
_extract_csv_schema(data) ==
    CASE data = "csv_utf8" ->
           [row_count |-> PyInt(2), sample_head |-> <<PyInt("3"), PyNone>>]
      [] data \in {"csv_latin1", "csv_latin1_crlf"} ->
           [row_count |-> PyInt(1), sample_head |-> <<PyStr("caf\\xe9")>>]
      [] OTHER ->
           [row_count |-> PyInt(2), sample_head |-> <<PyFloat("2.5"), PyFloat("1.0")>>]

\* InventoryScanner._classify
_classify(name, data) ==
    [path |-> PyStr(name),
     type |-> PyEnum(_EXT_MAP(Suffix(name))),
     format |-> PyStr(CASE Suffix(name) = ".ipynb" -> "ipynb"
                        [] Suffix(name) = ".json" -> "json"
                        [] OTHER -> "csv"),
     size_bytes |-> PyInt(SizeOf(data)),
     schema_info |-> IF Suffix(name) = ".csv" THEN <<_extract_csv_schema(data)>> ELSE <<>>,
     transformations |-> <<>>]

\* InventoryScanner.scan: one Asset per file, sorted by path
scan(dir) ==
    LET present == SelectSeq(PathOrder, LAMBDA n : dir[n].exists) IN
    [i \in 1..Len(present) |-> _classify(present[i], dir[present[i]].data)]

(***************************************************************************)
(* ingestion/data_repair.py                                                *)
(***************************************************************************)
\* DataTransformation(original_path, issue, action, details,
\*                    records_affected = 0, confidence = 1.0, backup_path = None)
DataTransformation(path, issue, affected, backup) ==
    [original_path |-> PyStr(path), issue |-> PyEnum(issue),
     records_affected |-> PyInt(affected), confidence |-> PyFloat("1.0"),
     backup_path |-> backup]

\* _fix_encoding / _fix_line_endings: the records repair appends for a file
RepairRecords(name, data) ==
    CASE data = "csv_latin1" ->
           <<DataTransformation(name, "encoding", 1, PyStr("data.csv.orig"))>>
      [] data = "csv_crlf" ->
           <<DataTransformation(name, "line_endings", 3, PyNone)>>
      [] data = "csv_latin1_crlf" ->
           <<DataTransformation(name, "encoding", 1, PyStr("data.csv.orig")),
             DataTransformation(name, "line_endings", 1, PyNone)>>
      [] data = "json_crlf" ->
           <<DataTransformation(name, "line_endings", 2, PyNone)>>
      [] OTHER -> <<>>
RECURSIVE Concat(_)
Concat(ss) == IF Len(ss) = 0 THEN <<>> ELSE Head(ss) \o Concat(Tail(ss))

\* the file's content after repair
Repaired(data) ==
    CASE data = "csv_latin1" -> "csv_latin1_as_utf8"
      [] data = "csv_crlf" -> "csv_crlf_as_lf"
      [] data = "csv_latin1_crlf" -> "csv_latin1_as_utf8_lf"
      [] data = "json_crlf" -> "json_as_lf"
      [] OTHER -> data

(***************************************************************************)
(* ingestion/notebook_preprocess.py                                        *)
(***************************************************************************)
\* _extract_images: the notebook with its inline image payloads stripped
Cleaned(data) == IF data = "nb_embedded_image" THEN "nb_image_extracted" ELSE data
ImagesIn(data) == IF data = "nb_embedded_image" THEN 1 ELSE 0

\* an extraction that logs nothing
ImageRecords_never(data) == <<>>

\* the aggregate record _extract_images logs when it extracted anything
ImageRecords(data) ==
    IF ImagesIn(data) > 0
    THEN <<DataTransformation("notebook.ipynb", "encoding", ImagesIn(data), PyNone)>>
    ELSE <<>>

\* NotebookPreprocessor.preprocess: the NotebookAnalysis it returns
preprocess(data) ==
    [total_cells |-> PyInt(3),
     embedded_images_count |-> PyInt(ImagesIn(data)),
     kernel_spec |-> IF data = "nb_embedded_image" THEN PyStr("python3") ELSE PyNone]

(***************************************************************************)
(* ingestion/manifest_generator.py                                         *)
(***************************************************************************)
NotebookAssets(as) == SelectSeq(as, LAMBDA a : a.type = PyEnum("notebook"))

\* ManifestGenerator.generate: the PackageManifest it builds
generate(as, an, now) ==
    [package |-> [id |-> PyStr("ingested"), name |-> PyStr("Ingested"),
                  created_at |-> PyStr(now), status |-> PyStr("pending")],
     notebook |-> [filename |-> PyStr("notebook.ipynb"),
                   original_filename |->
                       IF NotebookAssets(as) # <<>> THEN NotebookAssets(as)[1].path
                       ELSE PyStr("notebook.ipynb"),
                   kernel |-> IF an.kernel_spec # PyNone THEN an.kernel_spec
                              ELSE PyStr("python3"),
                   analysis |-> an],
     assets |-> as,
     instruction_improvements |-> <<>>]

\* a dump that writes None through str(), as the text "None"
json_dumps_none_as_text(x) ==
    CASE x.t = "str" -> [j |-> "string", v |-> x.v]
      [] x.t = "enum" -> [j |-> "string", v |-> x.v]
      [] x.t = "int" -> [j |-> "int", v |-> x.v]
      [] x.t = "float" -> [j |-> "real", v |-> x.v]
      [] OTHER -> [j |-> "string", v |-> "None"]

\* json.dumps of one dumped value: an enum member is written as its string
\* value, None as null, an int and a float as JSON numbers
json_dumps(x) ==
    CASE x.t = "str" -> [j |-> "string", v |-> x.v]
      [] x.t = "enum" -> [j |-> "string", v |-> x.v]
      [] x.t = "int" -> [j |-> "int", v |-> x.v]
      [] x.t = "float" -> [j |-> "real", v |-> x.v]
      [] OTHER -> [j |-> "null", v |-> "null"]

\* model_validate of one JSON value against the declared type of its field
model_validate(type, jv) ==
    CASE type = "str" /\ jv.j = "string" -> PyStr(jv.v)
      [] type = "enum" /\ jv.j = "string" -> PyEnum(jv.v)
      [] type = "int" /\ jv.j = "int" -> PyInt(jv.v)
      [] type = "float" /\ jv.j \in {"int", "real"} -> PyFloat(jv.v)
      [] type = "optional_str" /\ jv.j = "string" -> PyStr(jv.v)
      [] type = "optional_str" /\ jv.j = "null" -> PyNone
      [] type = "object" /\ jv.j = "string" -> PyStr(jv.v)
      [] type = "object" /\ jv.j = "int" -> PyInt(jv.v)
      [] type = "object" /\ jv.j = "real" -> PyFloat(jv.v)
      [] type = "object" /\ jv.j = "null" -> PyNone
      [] OTHER -> [t |-> "invalid", v |-> jv.v]

\* the written form of a DataTransformation and the model re-parsed from it
DumpTransformation(tr) == [f \in DOMAIN tr |-> json_dumps(tr[f])]
LoadTransformation(jt) ==
    [original_path |-> model_validate("str", jt.original_path),
     issue |-> model_validate("enum", jt.issue),
     records_affected |-> model_validate("int", jt.records_affected),
     confidence |-> model_validate("float", jt.confidence),
     backup_path |-> model_validate("optional_str", jt.backup_path)]

DumpSchema(s) ==
    [row_count |-> json_dumps(s.row_count),
     sample_head |-> [i \in 1..Len(s.sample_head) |-> json_dumps(s.sample_head[i])]]
LoadSchema(js) ==
    [row_count |-> model_validate("int", js.row_count),
     sample_head |-> [i \in 1..Len(js.sample_head) |->
                         model_validate("object", js.sample_head[i])]]

\* Asset: schema_info is written as null when None
DumpAsset(a) ==
    [path |-> json_dumps(a.path),
     type |-> json_dumps(a.type),
     format |-> json_dumps(a.format),
     size_bytes |-> json_dumps(a.size_bytes),
     schema_info |-> [i \in 1..Len(a.schema_info) |-> DumpSchema(a.schema_info[i])],
     transformations |-> [i \in 1..Len(a.transformations) |->
                             DumpTransformation(a.transformations[i])]]
LoadAsset(ja) ==
    [path |-> model_validate("str", ja.path),
     type |-> model_validate("enum", ja.type),
     format |-> model_validate("str", ja.format),
     size_bytes |-> model_validate("int", ja.size_bytes),
     schema_info |-> [i \in 1..Len(ja.schema_info) |-> LoadSchema(ja.schema_info[i])],
     transformations |-> [i \in 1..Len(ja.transformations) |->
                             LoadTransformation(ja.transformations[i])]]

\* generate, lines 71-76: json.dumps(manifest.model_dump(), default=str)
DumpManifest(m) ==
    [package |-> [f \in DOMAIN m.package |-> json_dumps(m.package[f])],
     notebook |-> [filename |-> json_dumps(m.notebook.filename),
                   original_filename |-> json_dumps(m.notebook.original_filename),
                   kernel |-> json_dumps(m.notebook.kernel),
                   analysis |-> [f \in DOMAIN m.notebook.analysis |->
                                    json_dumps(m.notebook.analysis[f])]],
     assets |-> [i \in 1..Len(m.assets) |-> DumpAsset(m.assets[i])],
     instruction_improvements |-> m.instruction_improvements]

\* ingest_project, lines 141-142: PackageManifest.model_validate(json.loads(...))
LoadManifest(jm) ==
    [package |-> [f \in DOMAIN jm.package |-> model_validate("str", jm.package[f])],
     notebook |-> [filename |-> model_validate("str", jm.notebook.filename),
                   original_filename |-> model_validate("str", jm.notebook.original_filename),
                   kernel |-> model_validate("str", jm.notebook.kernel),
                   analysis |->
                      [total_cells |->
                           model_validate("int", jm.notebook.analysis.total_cells),
                       embedded_images_count |->
                           model_validate("int", jm.notebook.analysis.embedded_images_count),
                       kernel_spec |->
                           model_validate("optional_str", jm.notebook.analysis.kernel_spec)]],
     assets |-> [i \in 1..Len(jm.assets) |-> LoadAsset(jm.assets[i])],
     instruction_improvements |-> jm.instruction_improvements]

(***************************************************************************)
(* ingestion/ingestor.py: PackageIngestor                                  *)
(***************************************************************************)
\* a conflict check that is skipped once a manifest exists
Conflict_only_before_ingestion(f) ==
    has_loose_files /\ input_already_populated /\ ~f /\ manifestFile = <<>>

\* _archive_originals, lines 171-176: the conflict that raises FileExistsError
Conflict(f) == has_loose_files /\ input_already_populated /\ ~f

\* _archive_originals, lines 178-181: input/ after every loose entry is moved
\* into it (shutil.move replaces a file of the same name)
ArchivedInput ==
    [n \in Names |-> IF rootLoose[n].exists THEN rootLoose[n] ELSE inputDir[n]]

\* ingest_project, line 138: load the existing manifest instead of ingesting
ShortCircuit(f) == manifestFile # <<>> /\ ~f

\* a forced re-ingestion that keeps the previous ingested/
DiscardPrevious_never(f) == FALSE

\* ingest_project, lines 144-146: rmtree and re-create ingested/ when forced
DiscardPrevious(f) == f

\* the user puts a file at the project root, between two calls
DropLooseFile(n, c) ==
    /\ ipc = "idle"
    /\ calls < MaxIngests
    /\ rootLoose[n] # File(c, 0)
    /\ rootLoose' = [rootLoose EXCEPT ![n] = File(c, 0)]
    /\ UNCHANGED <<inputDir, ingestedDir, manifestFile, ingestedExists, ipc, force,
                   assets, xformLog, analysis, transLog, returned, generated,
                   iresult, phases, before, calls, rawDir>>

\* ingest_project, lines 134-148, up to the start of ingest's first phase
\* (ingest, lines 48-55)
IngestProject(f) ==
    /\ ipc = "idle"
    /\ calls < MaxIngests
    /\ calls' = calls + 1
    /\ force' = f
    /\ rawDir' = "input"
    /\ phases' = 0
    /\ before' = [loose |-> rootLoose, input |-> inputDir, ingested |-> ingestedDir,
                  manifest |-> manifestFile]
    /\ ingestedExists' = TRUE
    /\ assets' = <<>>
    /\ xformLog' = <<>>
    /\ UNCHANGED <<analysis, transLog, generated>>
    /\ IF Conflict(f)
       THEN /\ iresult' = "FileExistsError"
            /\ returned' = <<>>
            /\ UNCHANGED <<rootLoose, inputDir, ingestedDir, manifestFile, ipc>>
       ELSE /\ rootLoose' = EmptyDir
            /\ inputDir' = ArchivedInput
            /\ IF ShortCircuit(f)
               THEN /\ returned' = <<LoadManifest(manifestFile[1])>>
                    /\ iresult' = "returned"
                    /\ UNCHANGED <<ingestedDir, manifestFile, ipc>>
               ELSE /\ ingestedDir' = IF DiscardPrevious(f) /\ ingestedExists'
                                      THEN EmptyIngested ELSE ingestedDir
                    /\ manifestFile' = IF DiscardPrevious(f) /\ ingestedExists'
                                       THEN <<>> ELSE manifestFile
                    /\ returned' = <<>>
                    /\ iresult' = "running"
                    /\ ipc' = "scan"

\* the raw_dir arguments of a direct call of ingest: the project's input/
\* directory, or a path at which nothing exists
RawDirs == {"input", "nonexistent"}

\* an ingest that never finds raw_dir missing
RawDirMissing_never(raw) == FALSE

\* ingest, line 48: not raw_dir.is_dir()
RawDirMissing(raw) == raw = "nonexistent"

\* ingest(raw_dir, ingested/), lines 48-55, called directly
Ingest(raw) ==
    /\ ipc = "idle"
    /\ calls < MaxIngests
    /\ calls' = calls + 1
    /\ force' = FALSE
    /\ rawDir' = raw
    /\ phases' = 0
    /\ before' = [loose |-> rootLoose, input |-> inputDir, ingested |-> ingestedDir,
                  manifest |-> manifestFile]
    /\ returned' = <<>>
    /\ UNCHANGED <<rootLoose, inputDir, ingestedDir, manifestFile, analysis, transLog,
                   generated>>
    /\ IF RawDirMissing(raw)
       THEN /\ iresult' = "FileNotFoundError"
            /\ UNCHANGED <<ingestedExists, ipc, assets, xformLog>>
       ELSE /\ ingestedExists' = TRUE
            /\ assets' = <<>>
            /\ xformLog' = <<>>
            /\ iresult' = "running"
            /\ ipc' = "scan"

\* ingest, lines 57-63: Phase 1, inventory, and the copy into target_dir
PhaseScanCopy ==
    /\ ipc = "scan"
    /\ assets' = scan(inputDir)
    /\ ingestedDir' = [q \in IngestedPaths |->
                          IF q \in Names /\ inputDir[q].exists
                          THEN File(inputDir[q].data, calls)
                          ELSE ingestedDir[q]]
    /\ phases' = phases + 1
    /\ ipc' = "repair"
    /\ UNCHANGED <<rootLoose, inputDir, manifestFile, ingestedExists, force, xformLog,
                   analysis, transLog, returned, generated, iresult, before, calls, rawDir>>

\* ingest, lines 65-71: Phase 2, repair of every data asset (data_repair.py)
PhaseRepair ==
    /\ ipc = "repair"
    /\ LET fixes(a) == IF a.type = PyEnum("data")
                       THEN RepairRecords(a.path.v, ingestedDir[a.path.v].data)
                       ELSE <<>>
       IN
       /\ assets' = [i \in 1..Len(assets) |->
                        [assets[i] EXCEPT !.transformations = @ \o fixes(assets[i])]]
       /\ xformLog' = xformLog \o Concat([i \in 1..Len(assets) |-> fixes(assets[i])])
       /\ ingestedDir' =
            [q \in IngestedPaths |->
               IF q \in Names /\ _EXT_MAP(Suffix(q)) = "data" /\ ingestedDir[q].exists
               THEN File(Repaired(ingestedDir[q].data), calls)
               ELSE IF q = "data.csv.orig" /\ ingestedDir["data.csv"].exists
                       /\ ingestedDir["data.csv"].data \in {"csv_latin1", "csv_latin1_crlf"}
               THEN File(ingestedDir["data.csv"].data, calls)
               ELSE ingestedDir[q]]
    /\ phases' = phases + 1
    /\ ipc' = "preprocess"
    /\ UNCHANGED <<rootLoose, inputDir, manifestFile, ingestedExists, force,
                   analysis, transLog, returned, generated, iresult, before, calls, rawDir>>

\* ingest, lines 73-85: Phase 3, notebook preprocessing; no notebook asset
\* raises FileNotFoundError
PhasePreprocess ==
    /\ ipc = "preprocess"
    /\ phases' = phases + 1
    /\ IF NotebookAssets(assets) = <<>>
       THEN /\ iresult' = "FileNotFoundError"
            /\ ipc' = "idle"
            /\ UNCHANGED <<ingestedDir, xformLog, analysis>>
       ELSE LET data == ingestedDir[NotebookAssets(assets)[1].path.v].data IN
            /\ analysis' = preprocess(data)
            /\ xformLog' = xformLog \o ImageRecords(data)
            /\ ingestedDir' =
                 [q \in IngestedPaths |->
                    IF q = "notebook.ipynb" THEN File(Cleaned(data), calls)
                    ELSE IF q = "notebook.ipynb.orig" THEN File(data, calls)
                    ELSE IF q = "images/sample_output_cell0_0.png" /\ ImagesIn(data) > 0
                    THEN File("png", calls)
                    ELSE ingestedDir[q]]
            /\ ipc' = "manifest"
            /\ UNCHANGED iresult
    /\ UNCHANGED <<rootLoose, inputDir, manifestFile, ingestedExists, force, assets,
                   transLog, returned, generated, before, calls, rawDir>>

\* ingest, lines 87-107: Phases 4 and 5, the manifest and transformations.log
PhaseManifest ==
    /\ ipc = "manifest"
    /\ LET manifest == generate(assets, analysis, calls) IN
       /\ manifestFile' = <<DumpManifest(manifest)>>
       /\ returned' = <<manifest>>
       /\ generated' = <<manifest>>
    /\ ingestedDir' = [ingestedDir EXCEPT !["transformations.log"] = File("log", calls)]
    /\ transLog' = xformLog
    /\ phases' = phases + 1
    /\ iresult' = "returned"
    /\ ipc' = "idle"
    /\ UNCHANGED <<rootLoose, inputDir, ingestedExists, force, assets, xformLog,
                   analysis, before, calls, rawDir>>

NoAnalysis == [total_cells |-> PyInt(0), embedded_images_count |-> PyInt(0),
               kernel_spec |-> PyNone]

IInit ==
    /\ rootLoose \in Dirs
    /\ inputDir \in Dirs
    /\ ingestedDir = EmptyIngested
    /\ manifestFile = <<>>
    /\ ingestedExists = FALSE
    /\ ipc = "idle"
    /\ force = FALSE
    /\ assets = <<>>
    /\ xformLog = <<>>
    /\ analysis = NoAnalysis
    /\ transLog = <<>>
    /\ returned = <<>>
    /\ generated = <<>>
    /\ iresult = "none"
    /\ phases = 0
    /\ before = [loose |-> EmptyDir, input |-> EmptyDir, ingested |-> EmptyIngested,
                 manifest |-> <<>>]
    /\ calls = 0
    /\ rawDir = "input"

INext ==
    \/ \E n \in Names : \E c \in FileContents(n) : DropLooseFile(n, c)
    \/ \E f \in BOOLEAN : IngestProject(f)
    \/ PhaseScanCopy
    \/ PhaseRepair
    \/ PhasePreprocess
    \/ PhaseManifest

(***************************************************************************)
(* Part 3. DataRepairer.repair on one data file, byte by byte              *)
(* (ingestion/data_repair.py).                                             *)
(***************************************************************************)
VARIABLES
    rFile,      \* package_dir/data.csv: <<>> (no such file) or <<its bytes>>
    rOrig,      \* package_dir/data.csv.orig: <<>> or <<its bytes>>
    rPre,       \* the bytes of data.csv when repair was called
    rDetected,  \* best.encoding.lower() of _fix_encoding, "" before detection
    rTrans,     \* the local list `transformations` of repair
    rLog,       \* the entries of xform_logger
    rWrites,    \* how many times data.csv was written
    rpc         \* position inside repair

rvars == <<rFile, rOrig, rPre, rDetected, rTrans, rLog, rWrites, rpc>>

\* the units a file is made of: CR, LF, another ASCII byte, a byte >= 0x80
\* that is not UTF-8 (0xE9), and a well-formed UTF-8 sequence (0xC3 0xA9);
\* the last two units only appear in files converted by _fix_encoding
Units == {"CR", "LF", "x", "E9", "C3A9"}
Contents == SeqsUpTo(Units, MaxBytes)

HasHighByte(raw) == \E i \in 1..Len(raw) : raw[i] \in {"E9", "C3A9"}
ValidUtf8(raw) == \A i \in 1..Len(raw) : raw[i] # "E9"

\* charset_normalizer's from_path(file).best().encoding.lower(): the names
\* are Python codec names ("ascii", "utf_8", "cp1252", "latin_1"); empty
\* input is reported as utf_8, and which 8-bit codepage is reported for
\* bytes that are not UTF-8 is the detector's choice
from_path(raw) ==
    IF Len(raw) = 0 THEN {"utf_8"}
    ELSE IF ~HasHighByte(raw) THEN {"ascii"}
    ELSE IF ValidUtf8(raw) THEN {"utf_8"}
    ELSE {"cp1252", "latin_1"}

\* _fix_encoding, line 69: detected in ("utf-8", "ascii")
AlreadyUtf8(detected) == detected \in {"utf-8", "ascii"}

\* raw.decode(detected, errors="replace") written back as UTF-8, unit by unit
Recode(u, detected) ==
    IF detected \in {"utf_8", "ascii"} THEN IF u = "E9" THEN "EFBFBD" ELSE u
    ELSE CASE u = "E9" -> "C3A9"
           [] u = "C3A9" -> "C383C2A9"
           [] OTHER -> u
ToUtf8(raw, detected) == [i \in 1..Len(raw) |-> Recode(raw[i], detected)]

\* text.count("\n")
CountLF(raw) == Cardinality({i \in 1..Len(raw) : raw[i] = "LF"})

\* raw.count(b"\r\n"): the positions at which a CR LF pair starts
CrlfAt(raw) == {i \in 1..Len(raw) - 1 : raw[i] = "CR" /\ raw[i + 1] = "LF"}
crlf_count(raw) == Cardinality(CrlfAt(raw))

\* raw.replace(b"\r\n", b"\n"): drop the CR of every pair
normalized(raw) ==
    LET keep == {i \in 1..Len(raw) : i \notin CrlfAt(raw)}
        Nth(k) == CHOOSE i \in keep : Cardinality({j \in keep : j < i}) = k - 1
    IN [k \in 1..Cardinality(keep) |-> raw[Nth(k)]]

\* repair, lines 30-32: the asset's file is missing, the asset is returned as is
RepairMissing ==
    /\ rpc = "encoding"
    /\ rFile = <<>>
    /\ rpc' = "done"
    /\ UNCHANGED <<rFile, rOrig, rPre, rDetected, rTrans, rLog, rWrites>>

\* _fix_encoding, lines 73-74: shutil.copy2(file_path, orig_path)
Backup(raw) == <<raw>>

\* repair, lines 37-40, and _fix_encoding
FixEncoding(detected) ==
    /\ rpc = "encoding"
    /\ rFile # <<>>
    /\ detected \in from_path(rFile[1])
    /\ rDetected' = detected
    /\ rpc' = "line_endings"
    /\ UNCHANGED rPre
    /\ IF AlreadyUtf8(detected)
       THEN UNCHANGED <<rFile, rOrig, rTrans, rLog, rWrites>>
       ELSE LET raw == rFile[1]
                text == ToUtf8(raw, detected)
                encoding_xform == DataTransformation("data.csv", "encoding",
                                      CountLF(text), PyStr("data.csv.orig"))
            IN /\ rOrig' = Backup(raw)
               /\ rFile' = <<text>>
               /\ rWrites' = rWrites + 1
               /\ rTrans' = Append(rTrans, encoding_xform)
               /\ rLog' = Append(rLog, encoding_xform)

\* _fix_line_endings, line 136: records_affected = crlf_count
LineEndingRecords(raw) == crlf_count(raw)

\* repair, lines 43-48, and _fix_line_endings
FixLineEndings ==
    /\ rpc = "line_endings"
    /\ rpc' = "done"
    /\ UNCHANGED <<rOrig, rPre, rDetected>>
    /\ LET raw == rFile[1] IN
       IF crlf_count(raw) = 0
       THEN UNCHANGED <<rFile, rTrans, rLog, rWrites>>
       ELSE LET le_xform == DataTransformation("data.csv", "line_endings",
                                LineEndingRecords(raw), PyNone)
            IN /\ rFile' = <<normalized(raw)>>
               /\ rWrites' = rWrites + 1
               /\ rTrans' = Append(rTrans, le_xform)
               /\ rLog' = Append(rLog, le_xform)

RInit ==
    /\ rFile \in {<<>>} \cup {<<c>> : c \in Contents}
    /\ rOrig = <<>>
    /\ rPre = rFile
    /\ rDetected = ""
    /\ rTrans = <<>>
    /\ rLog = <<>>
    /\ rWrites = 0
    /\ rpc = "encoding"

RNext ==
    \/ RepairMissing
    \/ \E detected \in {"ascii", "utf_8", "cp1252", "latin_1"} : FixEncoding(detected)
    \/ FixLineEndings

\* a write of data.csv that raises OSError: the file is as it was when it
\* could not be opened, and empty when it was opened (truncated) and the
\* bytes could not be written
FailedWrite(raw) == {<<raw>>, <<<<>>>>}

\* _fix_encoding, lines 73-74: shutil.copy2 raises; nothing in repair or in
\* the loop of ingest (ingestor.py, lines 65-71) catches the exception
BackupRaises(detected) ==
    /\ rpc = "encoding"
    /\ rFile # <<>>
    /\ detected \in from_path(rFile[1])
    /\ ~AlreadyUtf8(detected)
    /\ rDetected' = detected
    /\ rpc' = "raised"
    /\ UNCHANGED <<rFile, rOrig, rPre, rTrans, rLog, rWrites>>

\* _fix_encoding, lines 73-79: the backup is made, then write_text raises
EncodingWriteRaises(detected) ==
    /\ rpc = "encoding"
    /\ rFile # <<>>
    /\ detected \in from_path(rFile[1])
    /\ ~AlreadyUtf8(detected)
    /\ rDetected' = detected
    /\ rOrig' = Backup(rFile[1])
    /\ rFile' \in FailedWrite(rFile[1])
    /\ rpc' = "raised"
    /\ UNCHANGED <<rPre, rTrans, rLog, rWrites>>

\* _fix_line_endings, lines 121-127: write_bytes raises, after the encoding
\* transformation, if any, was appended and logged (repair, lines 37-40)
LineEndingWriteRaises ==
    /\ rpc = "line_endings"
    /\ crlf_count(rFile[1]) > 0
    /\ rFile' \in FailedWrite(rFile[1])
    /\ rpc' = "raised"
    /\ UNCHANGED <<rOrig, rPre, rDetected, rTrans, rLog, rWrites>>

\* repair when the file system calls can fail
RFNext ==
    \/ RNext
    \/ \E detected \in {"ascii", "utf_8", "cp1252", "latin_1"} : BackupRaises(detected)
    \/ \E detected \in {"ascii", "utf_8", "cp1252", "latin_1"} : EncodingWriteRaises(detected)
    \/ LineEndingWriteRaises

(***************************************************************************)
(* Part 4. NotebookArchiver.archive called repeatedly on one source and    *)
(* one destination tree (archiver.py).                                     *)
(***************************************************************************)
VARIABLES
    aSrc,        \* the files under input_dir, by relative path
    aSrcExists,  \* input_dir exists
    aDst,        \* the files under done_dir, by relative path
    aWritten,    \* the relative paths the last archive call copied
    aChanged,    \* the source paths edited since the last successful archive
    aResult,     \* how the last archive call ended
    aClock       \* the file system's clock: archive calls and edits so far

avars == <<aSrc, aSrcExists, aDst, aWritten, aChanged, aResult, aClock>>

ArchivePaths == {"hw.ipynb", "data/x.csv"}
Versions == {"v1", "v2"}
NoFile == [exists |-> FALSE, data |-> "", mtime |-> 0]
Stored(data, mtime) == [exists |-> TRUE, data |-> data, mtime |-> mtime]
\* the trees a directory may hold before the first call
Trees == [ArchivePaths -> {NoFile} \cup {Stored(v, 0) : v \in Versions}]
EmptyTree == [f \in ArchivePaths |-> NoFile]

\* a comparison of existence only
Identical_by_name(f) == aDst[f].exists

\* archive, lines 42-44: dst_file.exists() and filecmp.cmp(..., shallow=False)
Identical(f) == aDst[f].exists /\ aDst[f].data = aSrc[f].data

\* archive, lines 35-50: the files copy2 is called on
ToCopy == {f \in ArchivePaths : aSrc[f].exists /\ ~Identical(f)}

\* archive, lines 26-50; copy2 carries the source's content and mtime over
Archive ==
    /\ aClock < MaxClock
    /\ aClock' = aClock + 1
    /\ UNCHANGED <<aSrc, aSrcExists>>
    /\ IF ~aSrcExists
       THEN /\ aResult' = "FileNotFoundError"
            /\ UNCHANGED <<aDst, aWritten, aChanged>>
       ELSE /\ aDst' = [f \in ArchivePaths |-> IF f \in ToCopy THEN aSrc[f] ELSE aDst[f]]
            /\ aWritten' = ToCopy
            /\ aChanged' = {}
            /\ aResult' = "ok"

\* between two calls the user writes, rewrites or deletes a source file
EditSource(f, file) ==
    /\ aClock < MaxClock
    /\ aSrcExists
    /\ aClock' = aClock + 1
    /\ file.exists => file.mtime = aClock'
    /\ file.exists \/ aSrc[f].exists
    /\ aSrc' = [aSrc EXCEPT ![f] = file]
    /\ aChanged' = aChanged \cup {f}
    /\ UNCHANGED <<aSrcExists, aDst, aWritten, aResult>>

AInit ==
    /\ aSrcExists \in BOOLEAN
    /\ aSrc \in Trees
    /\ ~aSrcExists => aSrc = EmptyTree
    /\ aDst \in Trees
    /\ aWritten = {}
    /\ aChanged = {}
    /\ aResult = "none"
    /\ aClock = 0

ANext ==
    \/ Archive
    \/ \E f \in ArchivePaths :
         \E file \in {NoFile} \cup {Stored(v, aClock + 1) : v \in Versions} :
            EditSource(f, file)

(***************************************************************************)
(* Part 5. ProjectLayout.run_dir and the run directories under output/     *)
(* (project_layout.py).                                                    *)
(***************************************************************************)
VARIABLES
    lOutput,        \* the entries of output/: [prefix, digits, is_dir]
    lOutputExists,  \* output/ is a directory
    lReturned,      \* the name run_dir returned last: <<>> or <<[prefix, digits]>>
    lRuns           \* number of run_dir calls so far

lvars == <<lOutput, lOutputExists, lReturned, lRuns>>

\* an entry name is a prefix followed by decimal digits
Entry(prefix, digits, is_dir) == [prefix |-> prefix, digits |-> digits, is_dir |-> is_dir]
\* the entries output/ may hold before the first call: run-001, run-003,
\* run-099, run-999, run-5, run-0007, custom-run (directories) and a file run-050
Candidates ==
    {Entry("run-", <<0, 0, 1>>, TRUE), Entry("run-", <<0, 0, 3>>, TRUE),
     Entry("run-", <<0, 9, 9>>, TRUE), Entry("run-", <<9, 9, 9>>, TRUE),
     Entry("run-", <<5>>, TRUE), Entry("run-", <<0, 0, 0, 7>>, TRUE),
     Entry("custom-run", <<>>, TRUE), Entry("run-", <<0, 5, 0>>, FALSE)}

\* a pattern that takes any number of digits
_RUN_PATTERN_any_length(e) == e.prefix = "run-" /\ Len(e.digits) >= 1

\* _RUN_PATTERN, line 26: ^run-(\d{3})$
_RUN_PATTERN(e) == e.prefix = "run-" /\ Len(e.digits) = 3

\* int(m.group(1))
RECURSIVE int(_)
int(digits) ==
    IF Len(digits) = 0 THEN 0
    ELSE 10 * int(SubSeq(digits, 1, Len(digits) - 1)) + digits[Len(digits)]

\* the decimal digits of n, and f"{n:03d}"
RECURSIVE str(_)
str(n) == IF n < 10 THEN <<n>> ELSE Append(str(n \div 10), n % 10)
RECURSIVE zfill(_, _)
zfill(digits, width) == IF Len(digits) >= width THEN digits ELSE zfill(<<0>> \o digits, width)

\* _next_run_name, lines 67-74
_next_run_name ==
    LET matched == IF lOutputExists
                   THEN {e \in lOutput : e.is_dir /\ _RUN_PATTERN(e)}
                   ELSE {}
        seen == {0} \cup {int(e.digits) : e \in matched}
        max_n == CHOOSE n \in seen : \A m \in seen : m <= n
    IN [prefix |-> "run-", digits |-> zfill(str(max_n + 1), 3)]

\* run_dir, lines 55-63
RunDir(name) ==
    /\ lRuns < MaxRuns
    /\ lRuns' = lRuns + 1
    /\ lReturned' = <<IF name = "None" THEN _next_run_name
                      ELSE [prefix |-> name, digits |-> <<>>]>>
    /\ UNCHANGED <<lOutput, lOutputExists>>

\* the caller creates the directory run_dir named (pipeline.run,
\* output_path.mkdir(parents=True, exist_ok=True)); a file of that name stays
MakeRunDir ==
    /\ lReturned # <<>>
    /\ \A e \in lOutput : ~(e.prefix = lReturned[1].prefix /\ e.digits = lReturned[1].digits)
    /\ lOutput' = lOutput \cup {Entry(lReturned[1].prefix, lReturned[1].digits, TRUE)}
    /\ lOutputExists' = TRUE
    /\ UNCHANGED <<lReturned, lRuns>>

LInit ==
    /\ lOutput \in SUBSET Candidates
    /\ lOutputExists \in BOOLEAN
    /\ ~lOutputExists => lOutput = {}
    /\ lReturned = <<>>
    /\ lRuns = 0

LNext ==
    \/ \E name \in {"None", "custom-run", "my-run"} : RunDir(name)
    \/ MakeRunDir

\* cli.py, process without --name (lines 85-92): the layout names the run
\* directory, then pipeline.run is called on it with done_dir=None
ProcessCommand(p) ==
    /\ Alone(p)
    /\ RunDir("None")
    /\ RunStart(p, "None")

PrNext == \E p \in SeqProcs : ProcessCommand(p)

(***************************************************************************)
(* Part 6. NotebookSolver.solve with a pluggable solver, cell by cell      *)
(* (solver.py).                                                            *)
(***************************************************************************)
VARIABLES
    sCells,     \* content.cells, the argument of solve
    sSolved,    \* the local list solved_cells
    sAsked,     \* the solver calls made so far: [at, method, answer]
    sReturned,  \* <<>> or <<the cells of the content solve returned>>
    spc         \* "loop", "returned" or "raised"

svars == <<sCells, sSolved, sAsked, sReturned, spc>>

\* CellStatus
CellStatuses == {"original", "todo_code", "todo_markdown", "completed", "added"}

\* the cells solve may be handed: any type, status and source; a cell that
\* was completed before carries an original_source
NotebookCell(index, cell_type, source, status) ==
    [index |-> index, cell_type |-> cell_type, source |-> source, status |-> status,
     original_source |-> IF status = "completed" THEN "todo" ELSE "None",
     outputs |-> IF cell_type = "code" THEN "stale" ELSE "none"]
CellShapes == CellTypes \X {"todo", "plain"} \X CellStatuses
NotebookContents ==
    UNION {{[i \in 1..k |-> NotebookCell(i - 1, c[i][1], c[i][2], c[i][3])] :
               c \in [1..k -> CellShapes]} : k \in 0..MaxCells}

\* what a solver may answer: the StubSolver's text or another solver's
Answers(method, cell) ==
    {IF method = "solve_code_cell" THEN solve_code_cell(cell) ELSE solve_markdown_cell(cell),
     "generated"}

\* a copy that does not keep the prior source
SolvedCell_without_original(cell, new_source) ==
    [cell EXCEPT !.source = new_source, !.status = "completed"]

\* solve, lines 36-43 and 47-54: cell.model_copy(update = ...)
SolvedCell(cell, new_source) ==
    [cell EXCEPT !.source = new_source, !.status = "completed",
                 !.original_source = cell.source]

\* solve, lines 33-57: one iteration of the loop
SolveCell ==
    /\ spc = "loop"
    /\ Len(sSolved) < Len(sCells)
    /\ LET at == Len(sSolved) + 1
           cell == sCells[at]
           method == IF cell.status = "todo_code" THEN "solve_code_cell"
                     ELSE "solve_markdown_cell"
       IN IF cell.status \in {"todo_code", "todo_markdown"}
          THEN \E new_source \in Answers(method, cell) :
                  /\ sAsked' = Append(sAsked, [at |-> at, method |-> method,
                                               answer |-> new_source])
                  /\ sSolved' = Append(sSolved, SolvedCell(cell, new_source))
          ELSE /\ sSolved' = Append(sSolved, cell)
               /\ UNCHANGED sAsked
    /\ UNCHANGED <<sCells, sReturned, spc>>

\* the solver raises instead of answering; solve does not catch it
SolverRaises ==
    /\ spc = "loop"
    /\ Len(sSolved) < Len(sCells)
    /\ sCells[Len(sSolved) + 1].status \in {"todo_code", "todo_markdown"}
    /\ spc' = "raised"
    /\ UNCHANGED <<sCells, sSolved, sAsked, sReturned>>

\* solve, line 59
SolveReturn ==
    /\ spc = "loop"
    /\ Len(sSolved) = Len(sCells)
    /\ sReturned' = <<sSolved>>
    /\ spc' = "returned"
    /\ UNCHANGED <<sCells, sSolved, sAsked>>

SInit ==
    /\ sCells \in NotebookContents
    /\ sSolved = <<>>
    /\ sAsked = <<>>
    /\ sReturned = <<>>
    /\ spc = "loop"

SNext == SolveCell \/ SolverRaises \/ SolveReturn

(***************************************************************************)
(* Part 7. Marker detection: NotebookPreprocessor._detect_markers          *)
(* (ingestion/notebook_preprocess.py) and the parser's patterns            *)
(* (parser.py), on cell sources written as token sequences.                *)
(***************************************************************************)
VARIABLES
    mNb,       \* nb.cells: [cell_type, source], source a sequence of tokens
    mMarkers,  \* the local list `markers` of _detect_markers
    mAt,       \* number of cells _detect_markers has looked at
    mParsed,   \* <<>> or <<the statuses NotebookParser gives the cells>>
    mpc        \* "detect", "parse" or "done"

mvars == <<mNb, mMarkers, mAt, mParsed, mpc>>

\* A source is a sequence of tokens: words, punctuation, and "_" for a run
\* of blanks; {tick} stands for the backquote character.
Words == {"TODO", "todo", "implement", "Your", "YOUR", "your", "answer", "ANSWER",
          "here", "HERE", "raise", "NotImplementedError", "CODE", "code", "SYSTEM",
          "USER", "PROMPT", "GOES", "Enter", "x", "pass"}
\* str.lower() of a token
Lower(t) ==
    CASE t \in {"TODO", "todo"} -> "todo"
      [] t \in {"Your", "YOUR", "your"} -> "your"
      [] t \in {"answer", "ANSWER"} -> "answer"
      [] t \in {"here", "HERE"} -> "here"
      [] t \in {"CODE", "code"} -> "code"
      [] t = "NotImplementedError" -> "notimplementederror"
      [] t = "SYSTEM" -> "system"
      [] t = "USER" -> "user"
      [] t = "PROMPT" -> "prompt"
      [] t = "GOES" -> "goes"
      [] t = "Enter" -> "enter"
      [] OTHER -> t

\* the elements of a pattern: a literal, \s*, \s+, \b and .*
Lit(v) == [k |-> "lit", v |-> v]
WsStar == [k |-> "s*", v |-> ""]
WsPlus == [k |-> "s+", v |-> ""]
Boundary == [k |-> "b", v |-> ""]
AnyStar == [k |-> ".*", v |-> ""]
Pattern(pattern, ignorecase, elems) ==
    [pattern |-> pattern, ignorecase |-> ignorecase, elems |-> elems]

\* whether the pattern's elements from pi on match the source from si on
RECURSIVE MatchAt(_, _, _, _)
MatchAt(p, src, pi, si) ==
    IF pi > Len(p.elems) THEN TRUE
    ELSE LET e == p.elems[pi] IN
         IF e.k = "lit"
         THEN /\ si <= Len(src)
              /\ IF p.ignorecase THEN Lower(src[si]) = Lower(e.v) ELSE src[si] = e.v
              /\ MatchAt(p, src, pi + 1, si + 1)
         ELSE IF e.k = "s+"
         THEN si <= Len(src) /\ src[si] = "_" /\ MatchAt(p, src, pi + 1, si + 1)
         ELSE IF e.k = "s*"
         THEN \/ MatchAt(p, src, pi + 1, si)
              \/ si <= Len(src) /\ src[si] = "_" /\ MatchAt(p, src, pi + 1, si + 1)
         ELSE IF e.k = "b"
         THEN /\ (si > 1 /\ src[si - 1] \in Words) # (si <= Len(src) /\ src[si] \in Words)
              /\ MatchAt(p, src, pi + 1, si)
         ELSE \E k \in si..(Len(src) + 1) : MatchAt(p, src, pi + 1, k)

\* pattern.search(source)
search(p, src) == \E si \in 1..(Len(src) + 1) : MatchAt(p, src, 1, si)

\* DEFAULT_TODO_PATTERNS, compiled with re.IGNORECASE (lines 32-45, 70-73)
DEFAULT_TODO_PATTERNS ==
    <<Pattern("#\\s*TODO", TRUE, <<Lit("#"), WsStar, Lit("TODO")>>),
      Pattern("raise\\s+NotImplementedError", TRUE,
              <<Lit("raise"), WsPlus, Lit("NotImplementedError")>>),
      Pattern("#\\s*YOUR\\s+CODE\\s+HERE", TRUE,
              <<Lit("#"), WsStar, Lit("YOUR"), WsPlus, Lit("CODE"), WsPlus, Lit("HERE")>>),
      Pattern("\\*\\*Your\\s+answer\\s+here\\*\\*", TRUE,
              <<Lit("**"), Lit("Your"), WsPlus, Lit("answer"), WsPlus, Lit("here"),
                Lit("**")>>),
      Pattern("\\*\\*YOUR\\s+ANSWER\\s+HERE\\*\\*", TRUE,
              <<Lit("**"), Lit("YOUR"), WsPlus, Lit("ANSWER"), WsPlus, Lit("HERE"),
                Lit("**")>>),
      Pattern("<--\\s*YOUR\\s+SYSTEM\\s+PROMPT\\s+GOES\\s+HERE\\s*-->", TRUE,
              <<Lit("<--"), WsStar, Lit("YOUR"), WsPlus, Lit("SYSTEM"), WsPlus,
                Lit("PROMPT"), WsPlus, Lit("GOES"), WsPlus, Lit("HERE"), WsStar,
                Lit("-->")>>),
      Pattern("<--\\s*YOUR\\s+USER\\s+PROMPT\\s+GOES\\s+HERE\\s*-->", TRUE,
              <<Lit("<--"), WsStar, Lit("YOUR"), WsPlus, Lit("USER"), WsPlus,
                Lit("PROMPT"), WsPlus, Lit("GOES"), WsPlus, Lit("HERE"), WsStar,
                Lit("-->")>>),
      Pattern("{tick}<Enter\\s+your\\s+.*here>{tick}", TRUE,
              <<Lit("{tick}<"), Lit("Enter"), WsPlus, Lit("your"), WsPlus, AnyStar,
                Lit("here"), Lit(">{tick}")>>),
      Pattern("<!--\\s*YOUR\\s+ANSWER\\s+HERE\\s*-->", TRUE,
              <<Lit("<!--"), WsStar, Lit("YOUR"), WsPlus, Lit("ANSWER"), WsPlus,
                Lit("HERE"), WsStar, Lit("-->")>>)>>

\* parser.py, lines 20-24
_CODE_TODO_PATTERNS ==
    <<Pattern("#\\s*TODO", TRUE, <<Lit("#"), WsStar, Lit("TODO")>>),
      Pattern("#\\s*YOUR\\s+CODE\\s+HERE", TRUE,
              <<Lit("#"), WsStar, Lit("YOUR"), WsPlus, Lit("CODE"), WsPlus, Lit("HERE")>>),
      Pattern("raise\\s+NotImplementedError", FALSE,
              <<Lit("raise"), WsPlus, Lit("NotImplementedError")>>)>>

\* parser.py, lines 27-31
_MARKDOWN_TODO_PATTERNS ==
    <<Pattern("\\*\\*Your\\s+answer\\s+here\\b", TRUE,
              <<Lit("**"), Lit("Your"), WsPlus, Lit("answer"), WsPlus, Lit("here"),
                Boundary>>),
      Pattern("YOUR\\s+ANSWER\\s+HERE", FALSE,
              <<Lit("YOUR"), WsPlus, Lit("ANSWER"), WsPlus, Lit("HERE")>>),
      Pattern("<!--\\s*answer\\s*-->", TRUE,
              <<Lit("<!--"), WsStar, Lit("answer"), WsStar, Lit("-->")>>)>>

\* any(p.search(source) for p in patterns)
AnySearch(patterns, src) == \E j \in 1..Len(patterns) : search(patterns[j], src)

\* the class of a cell's source as parser.py's tests decide it for a cell of
\* that type (_detect_code_todo, _detect_markdown_todo, _is_empty_code_cell)
SourceClass(cell_type, src) ==
    IF cell_type = "code"
    THEN IF AnySearch(_CODE_TODO_PATTERNS, src) THEN "todo"
         ELSE IF SelectSeq(src, LAMBDA t : t # "_") \in {<<>>, <<"pass">>} THEN "empty"
         ELSE "plain"
    ELSE IF AnySearch(_MARKDOWN_TODO_PATTERNS, src) THEN "answer" ELSE "plain"

\* the cell sources of this model
Texts ==
    {<<"#", "_", "TODO", ":", "_", "implement">>,
     <<"**", "Your", "_", "answer", "_", "here", ":", "**">>,
     <<"**", "Your", "_", "answer", "_", "here", "**">>,
     <<"raise", "_", "NotImplementedError", "_", "#", "_", "todo">>,
     <<"#", "your", "_", "code", "_", "here">>,
     <<"<!--", "_", "YOUR", "_", "ANSWER", "_", "HERE", "-->">>,
     <<"{tick}<", "Enter", "_", "your", "_", "x", "_", "here", ">{tick}">>,
     <<"x", "_", "=", "_", "x">>,
     <<"_", "pass">>}
MarkerCells == [cell_type : CellTypes, source : Texts]
MarkerNotebooks == UNION {[1..k -> MarkerCells] : k \in 0..MaxCells}

\* TodoMarker(cell_index, cell_type, marker_pattern, context)
TodoMarker(i, ct, p, src) ==
    [cell_index |-> i, cell_type |-> ct, marker_pattern |-> p.pattern, context |-> src]

\* a loop over the patterns without the break
CellMarkers_without_break(i, cell) ==
    LET hits == SelectSeq(DEFAULT_TODO_PATTERNS, LAMBDA p : search(p, cell.source)) IN
    [j \in 1..Len(hits) |->
        TodoMarker(i, IF cell.cell_type = "code" THEN "code" ELSE "markdown",
                   hits[j], cell.source)]

\* _detect_markers, lines 236-250: the markers appended for cell i
CellMarkers(i, cell) ==
    LET hits == SelectSeq(DEFAULT_TODO_PATTERNS, LAMBDA p : search(p, cell.source)) IN
    IF hits = <<>> THEN <<>>
    ELSE <<TodoMarker(i, IF cell.cell_type = "code" THEN "code" ELSE "markdown",
                      hits[1], cell.source)>>

\* _detect_markers, lines 235-250: one iteration of the loop over the cells
DetectCell ==
    /\ mpc = "detect"
    /\ mAt < Len(mNb)
    /\ mMarkers' = mMarkers \o CellMarkers(mAt, mNb[mAt + 1])
    /\ mAt' = mAt + 1
    /\ UNCHANGED <<mNb, mParsed, mpc>>

\* _detect_markers, line 251
DetectReturn ==
    /\ mpc = "detect"
    /\ mAt = Len(mNb)
    /\ mpc' = "parse"
    /\ UNCHANGED <<mNb, mMarkers, mAt, mParsed>>

\* NotebookParser._extract_cells on the same cells: the status of each
ParseCells ==
    /\ mpc = "parse"
    /\ mParsed' = <<[i \in 1..Len(mNb) |->
                       _classify_cell(mNb[i].cell_type,
                                      SourceClass(mNb[i].cell_type, mNb[i].source))]>>
    /\ mpc' = "done"
    /\ UNCHANGED <<mNb, mMarkers, mAt>>

MInit ==
    /\ mNb \in MarkerNotebooks
    /\ mMarkers = <<>>
    /\ mAt = 0
    /\ mParsed = <<>>
    /\ mpc = "detect"

MNext == DetectCell \/ DetectReturn \/ ParseCells

(***************************************************************************)
(* Part 8. NotebookPreprocessor._detect_dependencies                       *)
(* (ingestion/notebook_preprocess.py), on code written as lines of tokens. *)
(***************************************************************************)
VARIABLES
    dNb,        \* nb.cells: [cell_type, source], source a sequence of lines
    dAll,       \* the local set `all_deps`
    dApi,       \* the local set `api_deps`
    dAt,        \* number of cells the loop has looked at
    dReturned   \* <<>> or <<the pair (dependencies, api_dependencies) returned>>

dvars == <<dNb, dAll, dApi, dAt, dReturned>>

\* the names the lines of this model mention, in the order Python's sorted()
\* gives strings (by code point)
SortedNames == <<"-q", "anthropic", "json", "openai", "os", "pandas">>
PkgNames == {SortedNames[i] : i \in 1..Len(SortedNames)}
\* tokens matched by \w+
WordNames == PkgNames \ {"-q"}

_API_PACKAGES == {"openai", "anthropic", "google", "cohere", "huggingface_hub",
                  "replicate"}

\* the local set `stdlib`, lines 292-297
stdlib == {"os", "sys", "re", "json", "csv", "math", "datetime", "pathlib",
           "collections", "itertools", "functools", "typing", "abc", "io",
           "logging", "time", "copy", "string", "textwrap", "warnings",
           "dataclasses", "enum", "random", "hashlib", "base64", "unittest",
           "pprint", "shutil", "tempfile", "glob", "subprocess", "argparse",
           "configparser"}

\* _IMPORT_RE, ^\s*(?:import|from)\s+(\w+) with re.MULTILINE, on one line:
\* the names it captures (at most one, at the start of the line)
_IMPORT_RE(line) ==
    {line[i + 2] : i \in {i \in 1..2 :
        /\ i + 2 <= Len(line)
        /\ i = 2 => line[1] = "_"
        /\ line[i] \in {"import", "from"}
        /\ line[i + 1] = "_"
        /\ line[i + 2] \in WordNames}}

\* _PIP_INSTALL_RE, !pip\s+install\s+([\w\-]+), on one line: the names it
\* captures, wherever in the line the match starts
_PIP_INSTALL_RE(line) ==
    {line[i + 4] : i \in {i \in 1..Len(line) :
        /\ i + 4 <= Len(line)
        /\ line[i] = "!pip"
        /\ line[i + 1] = "_"
        /\ line[i + 2] = "install"
        /\ line[i + 3] = "_"
        /\ line[i + 4] \in PkgNames}}

\* the m.group(1) of every match of a pattern in a cell's source
finditer(re(_), source) == UNION {re(source[k]) : k \in 1..Len(source)}

\* sorted(names)
RECURSIVE sorted_from(_, _)
sorted_from(names, i) ==
    IF i > Len(SortedNames) THEN <<>>
    ELSE (IF SortedNames[i] \in names THEN <<SortedNames[i]>> ELSE <<>>)
         \o sorted_from(names, i + 1)
sorted(names) == sorted_from(names, 1)

\* a return that does not filter the standard library out
Filtered_with_stdlib(all_deps) == sorted(all_deps)

\* line 298
Filtered(all_deps) == sorted(all_deps \ stdlib)

\* the lines of code of this model
CodeLines ==
    {<<"import", "_", "pandas", "_", "as", "_", "pd">>,
     <<"from", "_", "openai", "_", "import", "_", "OpenAI">>,
     <<"import", "_", "os">>,
     <<"_", "import", "_", "json">>,
     <<"!pip", "_", "install", "_", "openai">>,
     <<"!pip", "_", "install", "_", "-q", "_", "pandas">>,
     <<"#", "_", "import", "_", "anthropic">>,
     <<"#", "_", "!pip", "_", "install", "_", "anthropic">>,
     <<"x", "_", "=", "_", "x">>}
\* cell sources: one line, or one of two two-line sources
CodeSources ==
    {<<l>> : l \in CodeLines}
    \cup {<<<<"import", "_", "pandas", "_", "as", "_", "pd">>,
            <<"from", "_", "openai", "_", "import", "_", "OpenAI">>>>,
          <<<<"import", "_", "os">>, <<"_", "import", "_", "json">>>>}
DepCells == [cell_type : CellTypes, source : CodeSources]
DepNotebooks == UNION {[1..k -> DepCells] : k \in 0..MaxCells}

\* lines 274-289: one iteration of the loop over the cells
ScanCell ==
    /\ dReturned = <<>>
    /\ dAt < Len(dNb)
    /\ dAt' = dAt + 1
    /\ LET cell == dNb[dAt + 1] IN
       IF cell.cell_type # "code"
       THEN UNCHANGED <<dAll, dApi>>
       ELSE LET found == finditer(_IMPORT_RE, cell.source)
                             \cup finditer(_PIP_INSTALL_RE, cell.source) IN
            /\ dAll' = dAll \cup found
            /\ dApi' = dApi \cup (found \cap _API_PACKAGES)
    /\ UNCHANGED <<dNb, dReturned>>

\* lines 291-300
DepsReturn ==
    /\ dReturned = <<>>
    /\ dAt = Len(dNb)
    /\ dReturned' = <<[dependencies |-> Filtered(dAll),
                       api_dependencies |-> sorted(dApi)]>>
    /\ UNCHANGED <<dNb, dAll, dApi, dAt>>

DepInit ==
    /\ dNb \in DepNotebooks
    /\ dAll = {}
    /\ dApi = {}
    /\ dAt = 0
    /\ dReturned = <<>>

DepNext == ScanCell \/ DepsReturn

(***************************************************************************)
(* Part 9. InventoryScanner._extract_csv_schema (ingestion/inventory.py)   *)
(* on the rows csv.reader yields, cell by cell.                            *)
(***************************************************************************)
VARIABLES
    cFile,        \* `rows`: <<>> for an empty file, else the header and the data rows
    cCol,         \* the loop variable i of the loop over the columns
    cRow,         \* number of data rows the inner loop has looked at
    cIsInt,       \* the local is_int
    cIsFloat,     \* the local is_float
    cNulls,       \* the local nulls
    cDtypes,      \* the local dict dtypes
    cNullCounts,  \* the local dict null_counts
    cSchema       \* <<>>, <<PyNone>> or <<the DataSchema returned>>

cvars == <<cFile, cCol, cRow, cIsInt, cIsFloat, cNulls, cDtypes, cNullCounts, cSchema>>

MaxRows == 2

\* the header of the files of this model
Header == <<"a", "b">>
\* the cells of the files of this model
CellTexts == {"7", "1.5", "abc", "", " "}
\* a data row holds no cell (a blank line), one cell (a short row) or two
DataRows == UNION {[1..k -> CellTexts] : k \in 0..Len(Header)}
CsvFiles == {<<>>} \cup {<<Header>> \o d : d \in UNION {[1..k -> DataRows] : k \in 0..MaxRows}}

\* val.strip()
strip(val) == IF val = " " THEN "" ELSE val
\* int(val) does not raise ValueError
IntParses(val) == val \in {"7"}
\* float(val) does not raise ValueError
FloatParses(val) == val \in {"7", "1.5"}

columns == cFile[1]
data_rows == SubSeq(cFile, 2, Len(cFile))
row_count == Len(data_rows)

\* line 104: row[i] if i < len(row) else ""
CellAt(row, i) == IF i < Len(row) THEN row[i + 1] ELSE ""

\* a decision that does not look at the number of nulls
ColumnDtype_ignoring_nulls(is_int, is_float, nulls, rc) ==
    IF is_int THEN "int64" ELSE IF is_float THEN "float64" ELSE "object"

\* lines 118-123
ColumnDtype(is_int, is_float, nulls, rc) ==
    IF is_int /\ nulls < rc THEN "int64"
    ELSE IF is_float /\ nulls < rc THEN "float64"
    ELSE "object"

\* lines 103-117: one iteration of the loop over the data rows
VoteCell ==
    /\ cSchema = <<>>
    /\ Len(cFile) >= 1
    /\ cCol < Len(columns)
    /\ cRow < row_count
    /\ cRow' = cRow + 1
    /\ LET val == CellAt(data_rows[cRow + 1], cCol) IN
       IF strip(val) = ""
       THEN /\ cNulls' = cNulls + 1
            /\ UNCHANGED <<cIsInt, cIsFloat>>
       ELSE LET is_int == cIsInt /\ IntParses(val) IN
            /\ cIsInt' = is_int
            /\ cIsFloat' = IF cIsFloat /\ ~is_int THEN FloatParses(val) ELSE cIsFloat
            /\ UNCHANGED cNulls
    /\ UNCHANGED <<cFile, cCol, cDtypes, cNullCounts, cSchema>>

\* lines 118-125 and 99-102: the column's entries, then the next column
ColumnEnd ==
    /\ cSchema = <<>>
    /\ Len(cFile) >= 1
    /\ cCol < Len(columns)
    /\ cRow = row_count
    /\ cDtypes' = (columns[cCol + 1] :> ColumnDtype(cIsInt, cIsFloat, cNulls, row_count))
                  @@ cDtypes
    /\ cNullCounts' = IF cNulls > 0 THEN (columns[cCol + 1] :> cNulls) @@ cNullCounts
                      ELSE cNullCounts
    /\ cCol' = cCol + 1
    /\ cRow' = 0
    /\ cNulls' = 0
    /\ cIsInt' = TRUE
    /\ cIsFloat' = TRUE
    /\ UNCHANGED <<cFile, cSchema>>

\* lines 89-90 and 145-152
SchemaReturn ==
    /\ cSchema = <<>>
    /\ IF Len(cFile) < 1
       THEN cSchema' = <<PyNone>>
       ELSE /\ cCol = Len(columns)
            /\ cSchema' = <<[columns |-> columns, dtypes |-> cDtypes,
                             row_count |-> row_count, null_counts |-> cNullCounts]>>
    /\ UNCHANGED <<cFile, cCol, cRow, cIsInt, cIsFloat, cNulls, cDtypes, cNullCounts>>

CInit ==
    /\ cFile \in CsvFiles
    /\ cCol = 0
    /\ cRow = 0
    /\ cIsInt = TRUE
    /\ cIsFloat = TRUE
    /\ cNulls = 0
    /\ cDtypes = <<>>
    /\ cNullCounts = <<>>
    /\ cSchema = <<>>

CNext == VoteCell \/ ColumnEnd \/ SchemaReturn

(***************************************************************************)
(* Part 10. state.json under interruption: ProcessingPipeline._save_state  *)
(* and _load_or_create_state (pipeline.py) at the granularity of the file  *)
(* system calls of Path.write_text, in runs that can be interrupted.       *)
(***************************************************************************)
VARIABLES
    wFile,     \* state.json: [exists, text], text a sequence of JSON tokens
    wState,    \* the local variable `state` of run
    wpc,       \* "idle", the step run() is at, or "finish"
    wSave,     \* "none", "called" (_save_state entered) or "opened" (file truncated)
    wAfter,    \* where run() goes once the save has returned
    wWritten,  \* the states some _save_state call wrote completely
    wResult,   \* how the last run ended
    wRuns      \* number of runs started so far

wvars == <<wFile, wState, wpc, wSave, wAfter, wWritten, wResult, wRuns>>

\* state.model_dump_json(indent=2): the text of a state, as three tokens
model_dump_json(st) == <<"{", st, "}">>
\* json.loads(text) does not raise: the text is a whole JSON object
Loadable(text) == Len(text) = 3 /\ text[1] = "{" /\ text[3] = "}"
\* PipelineState.model_validate(json.loads(text))
model_validate_json(text) == text[2]

\* the texts a file opened with mode "w" can hold when the writer is stopped
\* before close(): nothing, or a part of the text
Partial(text) == {SubSeq(text, 1, k) : k \in 0..(Len(text) - 1)}

\* the step after a step, in the order of run()
NextStep(step) ==
    CASE step = "parse" -> "solve"
      [] step = "solve" -> "build"
      [] step = "build" -> "execute"
      [] step = "execute" -> "export"
      [] step = "export" -> "archive"
      [] OTHER -> "finish"

\* the state run() saves after the work of a step has succeeded
AfterWork(st, step) ==
    CASE step = "parse" -> [st EXCEPT !.current_step = "parse"]
      [] step = "solve" -> [st EXCEPT !.current_step = "solve",
                                      !.completed_steps = SolveCompleted(@)]
      [] OTHER -> Completed([st EXCEPT !.current_step = step], step)

\* line 53: the state is loaded before the try block; json.loads and
\* model_validate raise on a text that is not a whole document
WStart ==
    /\ wpc = "idle"
    /\ wRuns < MaxRuns
    /\ wRuns' = wRuns + 1
    /\ IF ~wFile.exists
       THEN /\ wState' = PipelineState("done", "parse", <<>>, <<>>)
            /\ wResult' = "running"
            /\ wpc' = "parse"
       ELSE IF Loadable(wFile.text)
       THEN /\ wState' = model_validate_json(wFile.text)
            /\ wResult' = "running"
            /\ wpc' = "parse"
       ELSE /\ wResult' = "JSONDecodeError"
            /\ UNCHANGED <<wState, wpc>>
    /\ UNCHANGED <<wFile, wSave, wAfter, wWritten>>

\* the work of a step and the state update that follows it, up to the call
\* of _save_state; a step already completed is skipped, except that the
\* document is parsed again (line 75) without a save
WWork(step) ==
    /\ wpc = step
    /\ wSave = "none"
    /\ IF Done(wState, step) /\ step # "parse"
       THEN /\ wpc' = NextStep(step)
            /\ UNCHANGED <<wState, wSave, wAfter>>
       ELSE \E ok \in BOOLEAN :
            IF ok /\ Done(wState, step)
            THEN /\ wpc' = NextStep(step)
                 /\ UNCHANGED <<wState, wSave, wAfter>>
            ELSE IF ok
            THEN /\ wState' = AfterWork(wState, step)
                 /\ wSave' = "called"
                 /\ wAfter' = NextStep(step)
                 /\ UNCHANGED wpc
            ELSE /\ wState' = [wState EXCEPT
                                  !.current_step = IF Done(wState, step) THEN @ ELSE step,
                                  !.errors = Append(@, ExcText(step))]
                 /\ wSave' = "called"
                 /\ wAfter' = "raise"
                 /\ UNCHANGED wpc
    /\ UNCHANGED <<wFile, wWritten, wResult, wRuns>>

\* lines 151-152: the save before the return
WFinish ==
    /\ wpc = "finish"
    /\ wSave = "none"
    /\ wSave' = "called"
    /\ wAfter' = "return"
    /\ UNCHANGED <<wFile, wState, wpc, wWritten, wResult, wRuns>>

\* line 176, first half: write_text opens state.json with mode "w", which
\* creates it or truncates it to nothing
OpenForWriting ==
    /\ wSave = "called"
    /\ wFile' = [exists |-> TRUE, text |-> <<>>]
    /\ wSave' = "opened"
    /\ UNCHANGED <<wState, wpc, wAfter, wWritten, wResult, wRuns>>

\* line 176, second half: the text is written and the file closed; run()
\* goes on, raises again (line 149) or returns (line 153)
WriteAndClose ==
    /\ wSave = "opened"
    /\ wFile' = [exists |-> TRUE, text |-> model_dump_json(wState)]
    /\ wWritten' = wWritten \cup {wState}
    /\ wSave' = "none"
    /\ IF wAfter = "raise"
       THEN wpc' = "idle" /\ wResult' = "raised"
       ELSE IF wAfter = "return"
       THEN wpc' = "idle" /\ wResult' = "returned"
       ELSE wpc' = wAfter /\ UNCHANGED wResult
    /\ UNCHANGED <<wState, wAfter, wRuns>>

\* the process is stopped (killed, power lost) wherever it is; a file that
\* is open for writing keeps what reached the disk
Interrupt ==
    /\ wpc # "idle"
    /\ wpc' = "idle"
    /\ wSave' = "none"
    /\ wResult' = "interrupted"
    /\ IF wSave = "opened"
       THEN \E text \in Partial(model_dump_json(wState)) :
               wFile' = [exists |-> TRUE, text |-> text]
       ELSE UNCHANGED wFile
    /\ UNCHANGED <<wState, wAfter, wWritten, wRuns>>

WInit ==
    /\ wFile = [exists |-> FALSE, text |-> <<>>]
    /\ wState = NoState
    /\ wpc = "idle"
    /\ wSave = "none"
    /\ wAfter = "none"
    /\ wWritten = {}
    /\ wResult = "none"
    /\ wRuns = 0

WNext ==
    \/ WStart
    \/ \E step \in Steps : WWork(step)
    \/ WFinish
    \/ OpenForWriting
    \/ WriteAndClose
    \/ Interrupt

(***************************************************************************)
(* Part 11. NotebookParser._find_notebook (parser.py) on the package that  *)
(* ingestion wrote.                                                        *)
(***************************************************************************)
VARIABLES
    fFound   \* <<>> or <<the path _find_notebook returned>>

fvars == <<fFound>>

\* input_dir.glob("*.ipynb"): the entries of the package directory whose
\* name ends in .ipynb (notebook.ipynb.orig does not)
glob(dir) == {q \in {"hw.ipynb", "notebook.ipynb"} : dir[q].exists}

\* _find_notebook on ingested/ once an ingest has returned: notebooks[0] is
\* the first path of a listing whose order the file system decides
FindNotebook ==
    /\ ipc = "idle"
    /\ iresult = "returned"
    /\ IF glob(ingestedDir) = {}
       THEN fFound' = <<"FileNotFoundError">>
       ELSE \E q \in glob(ingestedDir) : fFound' = <<q>>

FInit == fFound = <<>>

(***************************************************************************)
(* Specifications.                                                         *)
(***************************************************************************)
vars == <<pvars, ivars, rvars, avars, lvars, svars, mvars, dvars, cvars, wvars, fvars>>

\* the pipeline before any run, left alone by ingestion
PIdle == notebook = <<RawCell("code", "todo")>> /\ PInit
\* the project folder before any ingestion, left alone by the pipeline
IIdle == rootLoose = EmptyDir /\ inputDir = EmptyDir /\ IInit
\* no data file under repair
RIdle == rFile = <<>> /\ RInit
\* nothing to archive
AIdle == aSrcExists = FALSE /\ aSrc = EmptyTree /\ aDst = EmptyTree /\ AInit
\* no output/ directory yet
LIdle == lOutputExists = FALSE /\ lOutput = {} /\ LInit
\* no content to solve
SIdle == sCells = <<>> /\ SInit
\* no notebook to look for markers in
MIdle == mNb = <<>> /\ MInit
\* no notebook to scan for dependencies
DepIdle == dNb = <<>> /\ DepInit
\* no CSV file to describe
CIdle == cFile = <<>> /\ CInit
\* no run writing state.json
WIdle == wRuns = 0 /\ WInit
\* no notebook looked for
FIdle == FInit

\* the processing pipeline, one process at a time
Init == PInit /\ IIdle /\ RIdle /\ AIdle /\ LIdle /\ SIdle /\ MIdle /\ DepIdle /\ CIdle /\ WIdle /\ FIdle
Next == PNext /\ UNCHANGED <<ivars, rvars, avars, lvars, svars, mvars, dvars, cvars, wvars, fvars>>
Spec == Init /\ [][Next]_vars

\* the processing pipeline run by two processes on the same directories
ConcurrentInit == PIdle /\ IIdle /\ RIdle /\ AIdle /\ LIdle /\ SIdle /\ MIdle /\ DepIdle /\ CIdle /\ WIdle /\ FIdle
ConcurrentNext == ConcNext /\ UNCHANGED <<ivars, rvars, avars, lvars, svars, mvars, dvars, cvars, wvars, fvars>>
ConcurrentSpec == ConcurrentInit /\ [][ConcurrentNext]_vars

\* the process command invoked again and again on one project
ProcessInit == PIdle /\ LInit /\ IIdle /\ RIdle /\ AIdle /\ SIdle /\ MIdle /\ DepIdle /\ CIdle /\ WIdle /\ FIdle
ProcessNext == PrNext /\ UNCHANGED <<ivars, rvars, avars, svars, mvars, dvars, cvars, wvars, fvars>>
ProcessSpec == ProcessInit /\ [][ProcessNext]_vars

\* the pipeline re-invoked until it completes; every call returns or raises and
\* the caller keeps invoking run(), so that a step that can be taken is taken
RetryInit == PInit /\ Len(notebook) = 1 /\ IIdle /\ RIdle /\ AIdle /\ LIdle /\ SIdle /\ MIdle /\ DepIdle /\ CIdle /\ WIdle /\ FIdle
RetryStep == RetryNext /\ UNCHANGED <<ivars, rvars, avars, lvars, svars, mvars, dvars, cvars, wvars, fvars>>
RetrySpec == RetryInit /\ [][RetryStep]_vars /\ WF_vars(RetryStep)

\* convention-aware ingestion
IngestInit == IInit /\ PIdle /\ RIdle /\ AIdle /\ LIdle /\ SIdle /\ MIdle /\ DepIdle /\ CIdle /\ WIdle /\ FIdle
IngestNext == INext /\ UNCHANGED <<pvars, rvars, avars, lvars, svars, mvars, dvars, cvars, wvars, fvars>>
IngestSpec == IngestInit /\ [][IngestNext]_vars

\* ingest called directly on input/ or on a missing directory
DNext ==
    \/ \E raw \in RawDirs : Ingest(raw)
    \/ PhaseScanCopy
    \/ PhaseRepair
    \/ PhasePreprocess
    \/ PhaseManifest
DirectInit == IInit /\ rootLoose = EmptyDir /\ PIdle /\ RIdle /\ AIdle /\ LIdle /\ SIdle /\ MIdle /\ DepIdle /\ CIdle /\ WIdle /\ FIdle
DirectNext == DNext /\ UNCHANGED <<pvars, rvars, avars, lvars, svars, mvars, dvars, cvars, wvars, fvars>>
DirectSpec == DirectInit /\ [][DirectNext]_vars

\* the parser looking for the notebook of a package that ingest wrote
PkNext ==
    \/ DNext /\ UNCHANGED fvars
    \/ FindNotebook /\ UNCHANGED ivars
PackageInit == IInit /\ rootLoose = EmptyDir /\ FInit /\ PIdle /\ RIdle /\ AIdle /\ LIdle /\ SIdle /\ MIdle /\ DepIdle /\ CIdle /\ WIdle
PackageNext == PkNext /\ UNCHANGED <<pvars, rvars, avars, lvars, svars, mvars, dvars, cvars, wvars>>
PackageSpec == PackageInit /\ [][PackageNext]_vars

\* the repair of one data file
RepairInit == RInit /\ PIdle /\ IIdle /\ AIdle /\ LIdle /\ SIdle /\ MIdle /\ DepIdle /\ CIdle /\ WIdle /\ FIdle
RepairNext == RNext /\ UNCHANGED <<pvars, ivars, avars, lvars, svars, mvars, dvars, cvars, wvars, fvars>>
RepairSpec == RepairInit /\ [][RepairNext]_vars

\* the repair of one data file on a file system whose calls can fail
FailingRepairInit == RInit /\ PIdle /\ IIdle /\ AIdle /\ LIdle /\ SIdle /\ MIdle /\ DepIdle /\ CIdle /\ WIdle /\ FIdle
FailingRepairNext == RFNext /\ UNCHANGED <<pvars, ivars, avars, lvars, svars, mvars, dvars, cvars, wvars, fvars>>
FailingRepairSpec == FailingRepairInit /\ [][FailingRepairNext]_vars

\* repeated archiving
ArchiveInit == AInit /\ PIdle /\ IIdle /\ RIdle /\ LIdle /\ SIdle /\ MIdle /\ DepIdle /\ CIdle /\ WIdle /\ FIdle
ArchiveNext == ANext /\ UNCHANGED <<pvars, ivars, rvars, lvars, svars, mvars, dvars, cvars, wvars, fvars>>
ArchiveSpec == ArchiveInit /\ [][ArchiveNext]_vars

\* run directories named and created one after the other
LayoutInit == LInit /\ PIdle /\ IIdle /\ RIdle /\ AIdle /\ SIdle /\ MIdle /\ DepIdle /\ CIdle /\ WIdle /\ FIdle
LayoutNext == LNext /\ UNCHANGED <<pvars, ivars, rvars, avars, svars, mvars, dvars, cvars, wvars, fvars>>
LayoutSpec == LayoutInit /\ [][LayoutNext]_vars

\* one call of solve
SolveInit == SInit /\ PIdle /\ IIdle /\ RIdle /\ AIdle /\ LIdle /\ MIdle /\ DepIdle /\ CIdle /\ WIdle /\ FIdle
SolveNext == SNext /\ UNCHANGED <<pvars, ivars, rvars, avars, lvars, mvars, dvars, cvars, wvars, fvars>>
SolveSpec == SolveInit /\ [][SolveNext]_vars

\* marker detection by ingestion and by the parser
MarkerInit == MInit /\ PIdle /\ IIdle /\ RIdle /\ AIdle /\ LIdle /\ SIdle /\ DepIdle /\ CIdle /\ WIdle /\ FIdle
MarkerNext == MNext /\ UNCHANGED <<pvars, ivars, rvars, avars, lvars, svars, dvars, cvars, wvars, fvars>>
MarkerSpec == MarkerInit /\ [][MarkerNext]_vars

\* dependency detection, cell by cell
DependencyInit == DepInit /\ PIdle /\ IIdle /\ RIdle /\ AIdle /\ LIdle /\ SIdle /\ MIdle /\ CIdle /\ WIdle /\ FIdle
DependencyNext == DepNext /\ UNCHANGED <<pvars, ivars, rvars, avars, lvars, svars, mvars, cvars, wvars, fvars>>
DependencySpec == DependencyInit /\ [][DependencyNext]_vars

\* schema extraction from one CSV file
SchemaInit == CInit /\ PIdle /\ IIdle /\ RIdle /\ AIdle /\ LIdle /\ SIdle /\ MIdle /\ DepIdle /\ WIdle /\ FIdle
SchemaNext == CNext /\ UNCHANGED <<pvars, ivars, rvars, avars, lvars, svars, mvars, dvars, wvars, fvars>>
SchemaSpec == SchemaInit /\ [][SchemaNext]_vars

\* runs that can be interrupted, one at a time
InterruptInit == WInit /\ PIdle /\ IIdle /\ RIdle /\ AIdle /\ LIdle /\ SIdle /\ MIdle /\ DepIdle /\ CIdle /\ FIdle
InterruptNext == WNext /\ UNCHANGED <<pvars, ivars, rvars, avars, lvars, svars, mvars, dvars, cvars, fvars>>
InterruptSpec == InterruptInit /\ [][InterruptNext]_vars

(***************************************************************************)
(* Properties of the pipeline, checked under Spec.                         *)
(***************************************************************************)
Recorded(st, step) ==
    step \in {st.completed_steps[i] : i \in 1..Len(st.completed_steps)}
IsPrefix(s, t) == Len(s) <= Len(t) /\ \A i \in 1..Len(s) : s[i] = t[i]
Flagged(cell) == _classify_cell(cell.cell_type, cell.source) # "original"
AllRecorded(st) == \A s \in Steps : Recorded(st, s)

\* C1: if an earlier run recorded parse and solve as completed but not build,
\* then the notebook a later run builds holds the solved content: no
\* marker-flagged cell is written with its unsolved source.
C1_SolvedContentBuiltOnResume ==
    \A p \in Procs :
        (/\ Recorded(loaded[p], "solve")
         /\ ~Recorded(loaded[p], "build")
         /\ "build" \in invoked[p]
         /\ Recorded(state[p], "build"))
        => /\ outputNb.exists
           /\ \A i \in 1..Len(notebook) :
                Flagged(notebook[i]) => outputNb.cells[i].source # notebook[i].source

\* C2: a run started from a persisted state that lists a step as completed
\* never invokes that step's collaborator; only the parse is repeated.
C2_CompletedStepNotReinvoked ==
    \A p \in Procs :
        /\ \A s \in Steps \ {"parse"} : Recorded(loaded[p], s) => s \notin invoked[p]
        /\ (Recorded(loaded[p], "parse") /\ Recorded(loaded[p], "solve") /\ result[p] = "returned")
              => invoked[p] \cap {"parse", "solve"} = {"parse"}

C2_Witness ==
    \E p \in Procs :
        /\ Recorded(loaded[p], "parse") /\ Recorded(loaded[p], "solve")
        /\ ~Recorded(loaded[p], "build")
        /\ result[p] = "returned"
        /\ invoked[p] = Steps \ {"solve"}

\* C3: once a step's work has succeeded, its name is in the completed_steps
\* of state.json before the next step's work begins (parse included).
C3_StepPersistedBeforeNext ==
    \A p \in Procs : \A i \in 2..Len(StepOrder) :
        pc[p] = StepOrder[i] => stateFile.exists /\ Recorded(stateFile, StepOrder[i - 1])

\* C4: when a step's work raises, a description is appended to errors
\* (earlier entries kept), the state is written to state.json, the exception
\* propagates, no later step is attempted, and completed_steps is what it
\* was when the failing step began.
C4_FailureRecordedAndPropagated ==
    [][\A p \in Procs :
          (pc[p] \in Steps /\ result'[p] = "raised")
          => /\ Len(state'[p].errors) = Len(state[p].errors) + 1
             /\ SubSeq(state'[p].errors, 1, Len(state[p].errors)) = state[p].errors
             /\ state'[p].errors[Len(state'[p].errors)] = ExcText(pc[p])
             /\ stateFile' = state'[p]
             /\ state'[p].completed_steps = state[p].completed_steps
             /\ failed'[p] = pc[p]
             /\ pc'[p] = "idle"
             /\ \A j \in 1..Len(StepOrder) :
                   StepOrder[j] \in invoked'[p]
                   => \E k \in j..Len(StepOrder) : StepOrder[k] = pc[p]]_vars

C4_Witness ==
    \E p \in Procs :
        /\ result[p] = "raised" /\ failed[p] = "execute"
        /\ Len(state[p].errors) = 2
        /\ stateFile = state[p]

\* C5 (as stated): whenever run returns normally, completed_steps contains
\* all six step names and errors is empty.
C5_ReturnIsTerminal ==
    \A p \in Procs :
        result[p] = "returned" => AllRecorded(state[p]) /\ state[p].errors = <<>>

\* C5 (amended): whenever run returns normally, the state returned is the
\* state persisted, completed_steps contains all six step names, and errors
\* is exactly the error list the run loaded (empty if no earlier run failed).
C5_ReturnCompleteErrorsKept ==
    \A p \in Procs :
        result[p] = "returned"
        => /\ AllRecorded(state[p])
           /\ stateFile = state[p]
           /\ state[p].errors = loaded[p].errors

C5_Witness ==
    \E p \in Procs :
        /\ result[p] = "returned"
        /\ Len(state[p].errors) >= 1
        /\ invoked[p] # {"parse"}

\* C6: from an output directory without state.json, under any sequence of
\* runs by one process at a time, the completed_steps in state.json is always
\* a duplicate-free prefix of the six steps and never shrinks from one write
\* to the next.
C6_CompletedIsGrowingPrefix ==
    [][stateFile'.exists
       => /\ IsPrefix(stateFile'.completed_steps, StepOrder)
          /\ stateFile.exists
               => IsPrefix(stateFile.completed_steps, stateFile'.completed_steps)]_vars

C6_Witness ==
    /\ stateFile.exists
    /\ stateFile.completed_steps = StepOrder
    /\ Len(stateFile.errors) >= 2

\* C7: a run with no done location (done_dir is None) completes without
\* error, copies nothing and creates no done directory, records archive in
\* completed_steps, and its state's done_path is None.
C7_RunWithoutDoneDirCompletes ==
    \A p \in Procs :
        (doneArg[p] = "None" /\ result[p] \in {"raised", "returned"})
        => /\ result[p] = "returned"
           /\ Recorded(state[p], "archive")
           /\ state[p].done_path = "None"
           /\ ~doneFs.exists

(***************************************************************************)
(* Properties of ingest_project, checked under IngestSpec.                 *)
(***************************************************************************)
Populated(dir) == \E n \in Names : dir[n].exists
CallEnded == ipc = "idle" /\ calls > 0

C9_ConflictRefused ==
    (CallEnded /\ Populated(before.loose) /\ Populated(before.input) /\ ~force)
    => /\ iresult = "FileExistsError"
       /\ \A n \in Names : before.loose[n].exists => rootLoose[n].exists
       /\ inputDir = before.input
       /\ ingestedDir = before.ingested
       /\ manifestFile = before.manifest

C9_Witness ==
    /\ CallEnded /\ Populated(before.loose) /\ Populated(before.input) /\ ~force
    /\ iresult = "FileExistsError"
    /\ before.manifest # <<>>
    /\ rootLoose = before.loose

\* C10: with force true, the previous ingested/ is discarded before any
\* ingestion phase writes to it: during the phases and when the call returns,
\* every file under ingested/ was written by this ingestion.
C10_ForceDiscardsPrevious ==
    (force /\ calls > 0 /\ (ipc # "idle" \/ iresult = "returned"))
    => /\ \A q \in IngestedPaths : ingestedDir[q].exists => ingestedDir[q].by = calls
       /\ manifestFile # <<>>
            => LoadManifest(manifestFile[1]).package.created_at = PyStr(calls)

C10_Witness ==
    /\ force /\ CallEnded /\ iresult = "returned"
    /\ before.ingested["data.csv.orig"].exists
    /\ ~ingestedDir["data.csv.orig"].exists
    /\ before.manifest # <<>>

(***************************************************************************)
(* Properties of a direct ingest, checked under DirectSpec.                *)
(***************************************************************************)
\* C11: ingest ends with a not-found error when raw_dir is absent, and then
\* target_dir is not created and nothing is scanned; it ends with a not-found
\* error when no scanned asset is a notebook; in both cases manifest.json
\* is left as the call found it.
C11_NotFoundWritesNoManifest ==
    /\ [](ipc = "idle" /\ calls > 0
            /\ (rawDir = "nonexistent" \/ NotebookAssets(scan(inputDir)) = <<>>)
          => iresult = "FileNotFoundError")
    /\ [][(iresult' = "FileNotFoundError" /\ (calls' # calls \/ ipc # "idle"))
          => /\ manifestFile' = manifestFile
             /\ manifestFile' = before'.manifest
             /\ (rawDir' = "nonexistent"
                   => /\ ingestedExists' = ingestedExists
                      /\ ingestedDir' = ingestedDir
                      /\ phases' = 0)]_vars

\* a call without a notebook failed after copying its data file, and a later
\* call on a missing raw_dir failed too; no manifest was ever written
C11_Witness ==
    /\ ipc = "idle" /\ calls = 2
    /\ rawDir = "nonexistent" /\ iresult = "FileNotFoundError"
    /\ ingestedDir["data.csv"].exists /\ ~ingestedDir["hw.ipynb"].exists
    /\ manifestFile = <<>>

(***************************************************************************)
(* Properties of DataRepairer.repair, checked under RepairSpec.            *)
(***************************************************************************)
EncodingRecords == SelectSeq(rTrans, LAMBDA t : t.issue = PyEnum("encoding"))
LineEndingXforms == SelectSeq(rTrans, LAMBDA t : t.issue = PyEnum("line_endings"))
\* the detector reported UTF-8 or ASCII
DetectedUtf8OrAscii == rDetected \in {"utf_8", "ascii"}
RepairEnded == rpc = "done" /\ rFile # <<>>

\* C12: a repair that detected another encoding than UTF-8 or ASCII leaves
\* data.csv.orig holding the pre-repair bytes and exactly one encoding
\* transformation naming that backup; a repair that detected UTF-8 or ASCII
\* leaves no backup and no encoding transformation.
C12_BackupIffNotUtf8 ==
    RepairEnded =>
        IF DetectedUtf8OrAscii
        THEN rOrig = <<>> /\ EncodingRecords = <<>>
        ELSE /\ rOrig = rPre
             /\ Len(EncodingRecords) = 1
             /\ EncodingRecords[1].backup_path = PyStr("data.csv.orig")

\* C13: after repair, a file with at least one recorded transformation has a
\* backup equal to its pre-repair bytes.
C13_EveryRewriteBackedUp ==
    (RepairEnded /\ Len(rTrans) > 0) => rOrig = rPre

\* C14: for a file without bytes >= 0x80 holding k CR LF pairs, repair leaves
\* no CR LF pair and records one line-endings transformation with
\* records_affected = k when k >= 1, and neither rewrites the file nor
\* records a line-endings transformation when k = 0.
C14_NoCrlfRemains ==
    (RepairEnded /\ ~HasHighByte(rPre[1]) /\ Len(rPre[1]) > 0) =>
        LET k == crlf_count(rPre[1]) IN
        IF k = 0
        THEN rWrites = 0 /\ LineEndingXforms = <<>> /\ rFile = rPre
        ELSE /\ crlf_count(rFile[1]) = 0
             /\ Len(LineEndingXforms) = 1
             /\ LineEndingXforms[1].records_affected = PyInt(k)

(***************************************************************************)
(* Properties of the transformation log, checked under IngestSpec.         *)
(***************************************************************************)
\* the records the data assets carry, assets in the order of the manifest
AssetRecords ==
    Concat([i \in 1..Len(assets) |->
               IF assets[i].type = PyEnum("data") THEN assets[i].transformations
               ELSE <<>>])
\* the aggregate record of the images, when at least one was extracted
AggregateRecord ==
    IF analysis.embedded_images_count # PyInt(0)
    THEN <<DataTransformation("notebook.ipynb", "encoding",
                              analysis.embedded_images_count.v, PyNone)>>
    ELSE <<>>
FullIngestEnded == ipc = "idle" /\ iresult = "returned" /\ phases = 4

\* C15: after a full ingest the logger and transformations.log hold, in
\* order, the records of the data assets' transformations lists (assets in
\* scan order, an asset's encoding record before its line-ending record),
\* then one aggregate image record iff an image was extracted.
C15_LogMatchesAssetRecords ==
    FullIngestEnded =>
        /\ xformLog = AssetRecords \o AggregateRecord
        /\ transLog = xformLog
        /\ \A i \in 1..Len(assets) : \A j, k \in 1..Len(assets[i].transformations) :
              (assets[i].transformations[j].issue = PyEnum("line_endings")
               /\ assets[i].transformations[k].issue = PyEnum("encoding")) => k < j
        /\ \A i, j \in 1..Len(assets) :
              i < j => \E a, b \in 1..Len(PathOrder) :
                          /\ a < b
                          /\ PathOrder[a] = assets[i].path.v
                          /\ PathOrder[b] = assets[j].path.v

\* two data assets were repaired, one of them for both issues, and an image
\* was extracted: four records in the log
C15_Witness ==
    /\ FullIngestEnded
    /\ Len(xformLog) = 4
    /\ xformLog[1].original_path = PyStr("a.json")
    /\ xformLog[2].issue = PyEnum("encoding")
    /\ xformLog[3].issue = PyEnum("line_endings")
    /\ xformLog[4].original_path = PyStr("notebook.ipynb")

(***************************************************************************)
(* Properties of NotebookArchiver.archive, checked under ArchiveSpec.      *)
(***************************************************************************)
ArchiveReturned == aClock' = aClock + 1 /\ aResult' = "ok" /\ aChanged' = {}

\* C16: an archive leaves an identical copy of every source file at the same
\* relative path, copies exactly the source files that had no identical copy,
\* leaves every other destination file (those only under dst included) as
\* it was, and after an earlier archive copies nothing but files edited
\* since then: nothing at all when the source is unchanged.
C16_ArchiveIdempotentMinimal ==
    [][ArchiveReturned =>
          /\ \A f \in ArchivePaths :
                aSrc[f].exists => aDst'[f].exists /\ aDst'[f].data = aSrc[f].data
          /\ aWritten' = {f \in ArchivePaths :
                           aSrc[f].exists /\ ~(aDst[f].exists /\ aDst[f].data = aSrc[f].data)}
          /\ \A f \in ArchivePaths : f \notin aWritten' => aDst'[f] = aDst[f]
          /\ \A f \in ArchivePaths : ~aSrc[f].exists => aDst'[f] = aDst[f]
          /\ aResult = "ok" => aWritten' \subseteq aChanged]_vars

\* a second archive after one source file changed copied that file only, and
\* a file that exists only under dst is still there
C16_Witness ==
    /\ aResult = "ok" /\ aClock = 3
    /\ aWritten = {"hw.ipynb"}
    /\ aDst["hw.ipynb"] = Stored("v2", 2)
    /\ aDst["data/x.csv"].exists /\ ~aSrc["data/x.csv"].exists

(***************************************************************************)
(* Properties of ProjectLayout.run_dir, checked under LayoutSpec.          *)
(***************************************************************************)
\* the numbers of the directories under output/ named run- and three digits
RunNumbers ==
    {100 * e.digits[1] + 10 * e.digits[2] + e.digits[3] :
        e \in {x \in lOutput : x.is_dir /\ x.prefix = "run-" /\ Len(x.digits) = 3}}
Highest(S) == IF S = {} THEN 0 ELSE CHOOSE n \in S : \A m \in S : m <= n
Value(digits) ==
    IF Len(digits) = 3 THEN 100 * digits[1] + 10 * digits[2] + digits[3]
    ELSE 1000 * digits[1] + 100 * digits[2] + 10 * digits[3] + digits[4]

\* C17: with no name given run_dir returns run- followed by the decimal
\* digits, padded with zeros to three, of one more than the highest number
\* among the directories named run-NNN (1 when there is none); entries of
\* another form, and files, are ignored.
C17_NextRunName ==
    [][(lRuns' = lRuns + 1 /\ lReturned'[1].prefix = "run-")
         => LET digits == lReturned'[1].digits IN
            /\ Len(digits) \in {3, 4}
            /\ Len(digits) = 4 => digits[1] # 0
            /\ Value(digits) = Highest(RunNumbers) + 1
            /\ lOutput' = lOutput]_vars

\* with run-001 and run-003 present, and entries that do not count, the
\* name returned is run-004
C17_Witness ==
    /\ lReturned = <<[prefix |-> "run-", digits |-> <<0, 0, 4>>]>>
    /\ lOutput = {Entry("run-", <<0, 0, 1>>, TRUE), Entry("run-", <<0, 0, 3>>, TRUE),
                  Entry("run-", <<0, 0, 0, 7>>, TRUE), Entry("custom-run", <<>>, TRUE),
                  Entry("run-", <<0, 5, 0>>, FALSE)}

(***************************************************************************)
(* Properties of NotebookSolver.solve, checked under SolveSpec.            *)
(***************************************************************************)
AskedAt(i) == {k \in 1..Len(sAsked) : sAsked[k].at = i}

\* C18: the content solve returns has as many cells as it was given; a cell
\* whose status was todo_code or todo_markdown is completed, holds the answer
\* of the one solver call made for it (solve_code_cell or solve_markdown_cell
\* by its status), and keeps its prior source as original_source; every
\* other cell is returned as it was and the solver is not called for it.
C18_SolveCompletesTodoCells ==
    spc = "returned" =>
        LET out == sReturned[1] IN
        /\ Len(out) = Len(sCells)
        /\ \A i \in 1..Len(sCells) :
              IF sCells[i].status \in {"todo_code", "todo_markdown"}
              THEN /\ Cardinality(AskedAt(i)) = 1
                   /\ \A k \in AskedAt(i) :
                         /\ out[i].source = sAsked[k].answer
                         /\ sAsked[k].method = IF sCells[i].status = "todo_code"
                                               THEN "solve_code_cell"
                                               ELSE "solve_markdown_cell"
                   /\ out[i].status = "completed"
                   /\ out[i].original_source = sCells[i].source
                   /\ out[i].index = sCells[i].index
                   /\ out[i].cell_type = sCells[i].cell_type
                   /\ out[i].outputs = sCells[i].outputs
              ELSE out[i] = sCells[i] /\ AskedAt(i) = {}

\* a todo cell answered by the solver next to a cell that was left alone
C18_Witness ==
    /\ spc = "returned"
    /\ Len(sCells) = 2
    /\ sCells[1].status = "todo_markdown" /\ sCells[1].source = "plain"
    /\ sCells[2].status = "completed"
    /\ sReturned[1][1].source = "generated"
    /\ sReturned[1][1].original_source = "plain"
    /\ Len(sAsked) = 1

(***************************************************************************)
(* Properties of marker detection, checked under MarkerSpec.               *)
(***************************************************************************)
MarkersOf(i) == {k \in 1..Len(mMarkers) : mMarkers[k].cell_index = i}
Matching(src) == {j \in 1..Len(DEFAULT_TODO_PATTERNS) : search(DEFAULT_TODO_PATTERNS[j], src)}

\* C19: once the cells are examined, a cell has one marker if some pattern
\* of the list matches its source and none otherwise; the marker names the
\* matching pattern that comes first in the list; markers are in ascending
\* cell_index.
C19_OneMarkerFirstPattern ==
    mAt = Len(mNb) =>
        /\ \A i \in 0..(Len(mNb) - 1) :
              LET hits == Matching(mNb[i + 1].source) IN
              /\ Cardinality(MarkersOf(i)) = IF hits = {} THEN 0 ELSE 1
              /\ \A k \in MarkersOf(i) : \E j \in hits :
                    /\ \A h \in hits : j <= h
                    /\ mMarkers[k].marker_pattern = DEFAULT_TODO_PATTERNS[j].pattern
        /\ \A k, l \in 1..Len(mMarkers) :
              k < l => mMarkers[k].cell_index < mMarkers[l].cell_index

\* a cell matched by two patterns, raise NotImplementedError before # todo
\* in its text, carries the one marker of the pattern that is first in the list
C19_Witness ==
    /\ mAt = 2 /\ Len(mNb) = 2
    /\ mNb[1].source = <<"x", "_", "=", "_", "x">>
    /\ mNb[2].source = <<"raise", "_", "NotImplementedError", "_", "#", "_", "todo">>
    /\ Len(mMarkers) = 1
    /\ mMarkers[1].cell_index = 1
    /\ mMarkers[1].marker_pattern = "#\\s*TODO"

\* the notebook of the claim: # TODO: implement in a code cell, then
\* **Your answer here:** in a markdown cell
FixtureNotebook ==
    <<[cell_type |-> "code", source |-> <<"#", "_", "TODO", ":", "_", "implement">>],
      [cell_type |-> "markdown",
       source |-> <<"**", "Your", "_", "answer", "_", "here", ":", "**">>]>>

\* C20: for that notebook ingestion records exactly one marker of a code cell
\* and exactly one of a markdown cell, and the parser gives the code cell the
\* status todo_code and the markdown cell the status todo_markdown.
C20_BothDetectOneCodeOneMarkdown ==
    (mpc = "done" /\ mNb = FixtureNotebook) =>
        /\ Len(mMarkers) = 2
        /\ mMarkers[1].cell_index = 0 /\ mMarkers[1].cell_type = "code"
        /\ mMarkers[2].cell_index = 1 /\ mMarkers[2].cell_type = "markdown"
        /\ mParsed = <<<<"todo_code", "todo_markdown">>>>

(***************************************************************************)
(* Properties of dependency detection, checked under DependencySpec.       *)
(***************************************************************************)
\* the names some import or pip-install line of a code cell mentions
FoundNames ==
    {n \in PkgNames :
        \E i \in 1..Len(dNb) : \E k \in 1..Len(dNb[i].source) :
            /\ dNb[i].cell_type = "code"
            /\ n \in _IMPORT_RE(dNb[i].source[k]) \cup _PIP_INSTALL_RE(dNb[i].source[k])}

\* position of a name in the order of sorted()
Rank(n) == CHOOSE i \in 1..Len(SortedNames) : SortedNames[i] = n
\* a list that is strictly increasing, hence sorted and free of duplicates
StrictlySorted(list) ==
    \A k, l \in 1..Len(list) : k < l => Rank(list[k]) < Rank(list[l])
Elements(list) == {list[k] : k \in 1..Len(list)}

\* the notebook of the claim: pandas, openai, os and json imported
ImportsFixture ==
    <<[cell_type |-> "code",
       source |-> <<<<"import", "_", "pandas", "_", "as", "_", "pd">>,
                    <<"from", "_", "openai", "_", "import", "_", "OpenAI">>>>],
      [cell_type |-> "code",
       source |-> <<<<"import", "_", "os">>, <<"_", "import", "_", "json">>>>]>>

NonEmptyCells(i) ==
    {CellAt(data_rows[k], i) : k \in {k \in 1..row_count :
                                        strip(CellAt(data_rows[k], i)) # ""}}
\* the data rows whose cell in column i is blank or missing
NullRows(i) == {k \in 1..row_count : strip(CellAt(data_rows[k], i)) = ""}

\* the dtype the stated rule gives column i
VotedDtype(i) ==
    IF NonEmptyCells(i) # {} /\ \A v \in NonEmptyCells(i) : IntParses(v) THEN "int64"
    ELSE IF NonEmptyCells(i) # {} /\ \A v \in NonEmptyCells(i) : FloatParses(v)
    THEN "float64"
    ELSE "object"

C23_InterruptedStateLoadable ==
    /\ wResult = "interrupted" =>
          \/ ~wFile.exists
          \/ /\ Loadable(wFile.text)
             /\ model_validate_json(wFile.text) \in wWritten
    /\ wResult # "JSONDecodeError"

(***************************************************************************)
(* Further properties of the pipeline, checked under Spec.                 *)
(***************************************************************************)
\* C24: when a run has recorded an error, the current_step of the persisted
\* state names the step whose work raised, for every step and every
\* starting state, the parse of a resumed run included.
C24_CurrentStepNamesFailedStep ==
    \A p \in SeqProcs :
        (result[p] = "raised" /\ failed[p] \in Steps) =>
            /\ stateFile.exists
            /\ stateFile.errors # <<>>
            /\ stateFile.current_step = failed[p]

(***************************************************************************)
(* Properties of concurrent runs, checked under ConcurrentSpec.            *)
(***************************************************************************)
\* C25: nothing excludes a second run on an output directory: a process
\* that is not running can start a run whatever the other process is doing,
\* and a run executes every step that is absent from the completed_steps it
\* loaded, even when another run has completed that step in the meantime.
C25_NoMutualExclusion ==
    \A p \in Procs :
        /\ (pc[p] = "idle" /\ runs < MaxRuns) =>
              ENABLED (Admitted(p) /\ RunStart(p, "done"))
        /\ \A s \in Steps :
              (result[p] = "running" /\ pc[p] = "finish" /\ ~Done(loaded[p], s)) =>
                  s \in invoked[p]

\* two runs under way at once that both loaded a state without solve and
\* without build in completed_steps and both did the work of the two steps
C25_Witness ==
    \A p \in Procs :
        /\ result[p] = "running"
        /\ ~Done(loaded[p], "solve") /\ ~Done(loaded[p], "build")
        /\ {"solve", "build"} \subseteq invoked[p]

(***************************************************************************)
(* Properties of the process command, checked under ProcessSpec.           *)
(***************************************************************************)
\* C26: when a run started by process without a run name has failed, the
\* next invocation of the command on the project resumes it: run_dir names
\* the same directory and the run loads the state.json found there.
C26_ReinvocationResumes ==
    [][\A p \in SeqProcs :
          (result[p] = "raised" /\ runs' = runs + 1) =>
              /\ lReturned' = lReturned
              /\ loaded'[p].exists
              /\ loaded'[p] = stateFile]_vars

(***************************************************************************)
(* Properties of the parser on an ingested package, checked under          *)
(* PackageSpec.                                                            *)
(***************************************************************************)
\* C27: on a package directory produced by ingest the notebook the parser
\* finds is always the cleaned notebook.ipynb, never the raw copy of the
\* original notebook.
C27_ParsesCleanedNotebook ==
    fFound # <<>> => fFound = <<"notebook.ipynb">>

(***************************************************************************)
(* Properties of a failing repair, checked under FailingRepairSpec.        *)
(***************************************************************************)
\* C28: a failure while repairing a data file does not end ingestion and
\* leaves no partly applied repair: once repair is over, either it returned
\* with every transformation both on the asset and in the log, or the file
\* holds the bytes it held before, there is no backup and nothing was
\* recorded; in both cases ingestion goes on with the next asset.
C28_RepairFailureSkipsFile ==
    rpc \in {"done", "raised"} =>
        /\ rpc = "done"
        /\ rLog = rTrans
        /\ rTrans = <<>> => (rFile = rPre /\ rOrig = <<>>)

(***************************************************************************)
(* Liveness of the pipeline, checked under RetrySpec.                      *)
(***************************************************************************)
AllStepsCompleted(st) == Steps \subseteq {st.completed_steps[i] : i \in 1..Len(st.completed_steps)}

\* C29: every run that has started ends by returning or raising, and when
\* run is invoked again and again on the same directories, one run at a
\* time, with every step's work succeeding when retried, eventually a run
\* returns with all six steps in completed_steps.
C29_RunsEndAndEventuallyComplete ==
    /\ \A p \in SeqProcs :
          (pc[p] # "idle") ~> (pc[p] = "idle" /\ result[p] \in {"returned", "raised"})
    /\ <>(\E p \in SeqProcs :
             /\ pc[p] = "idle" /\ result[p] = "returned"
             /\ AllStepsCompleted(state[p])
             /\ stateFile = state[p])

\* a run that returned with the six steps completed after two earlier runs
\* had raised
C29_Witness ==
    /\ pc["p1"] = "idle" /\ result["p1"] = "returned"
    /\ AllStepsCompleted(stateFile)
    /\ Len(stateFile.errors) = 2
    /\ runs = 3

(***************************************************************************)
(* Further properties of ProjectLayout.run_dir, checked under LayoutSpec.  *)
(***************************************************************************)
\* C30: the run-NNN path run_dir returns when no name is given never names
\* a directory that already exists under output/, whatever directories are
\* there, run-999 and beyond included.
C30_AutoNamedRunDirIsFresh ==
    [][(lRuns' = lRuns + 1 /\ lReturned'[1].prefix = "run-") =>
          \A e \in lOutput :
             ~(e.is_dir /\ e.prefix = "run-" /\ e.digits = lReturned'[1].digits)]_vars
====
